---------------------------- MODULE Spec2Model ----------------------------
(***************************************************************************)
(* Model of the RPA archive codec of unrpa (src/unrpa/src/rpa.rs): header  *)
(* and version detection, key derivation, structured and heuristic index   *)
(* decode, the entry data accessor, the edit operations and the archive    *)
(* rebuilder, as operations of one editor session over a small disk.       *)
(*                                                                         *)
(* Representation.  A byte is a number 0..255 and text is a sequence of    *)
(* ASCII codes.  A u32 is a sequence of 8 hexadecimal digits (0..15, most  *)
(* significant first) and a u64 one of 16: the key 0xDEADBEEF does not fit *)
(* the model checker's integers, and XOR is digit-wise anyway.             *)
(***************************************************************************)
EXTENDS Integers, Sequences, FiniteSets, TLC

VARIABLES
    version,        \* RpaEditor.version times ten: 20, 30 or 32
    key,            \* RpaEditor.key, a u32
    indexes,        \* RpaEditor.indexes: filename -> RpaFileEntry
    archive_path,   \* RpaEditor.archive_path: <<>> (None) or <<path>>
    modified,       \* RpaEditor.modified
    backup_history, \* RpaEditor.backup_history
    auto_backup,    \* RpaEditor.auto_backup
    fs,             \* the disk: path -> file
    result,         \* the last call: its name, arguments and return value
    ops             \* the number of calls so far

vars == <<version, key, indexes, archive_path, modified, backup_history,
          auto_backup, fs, result, ops>>

session == <<version, key, indexes, archive_path, modified>>

(***************************************************************************)
(* Sequences, bytes and machine words                                      *)
(***************************************************************************)

Zeros(n) == [i \in 1..n |-> 0]

Take(s, n) == SubSeq(s, 1, IF n < Len(s) THEN n ELSE Len(s))

Drop(s, n) == SubSeq(s, n + 1, Len(s))

\* str::starts_with
StartsWith(s, p) == Len(p) <= Len(s) /\ SubSeq(s, 1, Len(p)) = p

\* str::ends_with
EndsWith(s, p) ==
    Len(p) <= Len(s) /\ SubSeq(s, Len(s) - Len(p) + 1, Len(s)) = p

\* the least element of a non-empty set of numbers
Min(S) == CHOOSE x \in S : \A y \in S : x <= y

\* byte-wise lexicographic order of two strings (Ord for String)
RECURSIVE LexLess(_, _)
LexLess(a, b) ==
    IF b = <<>> THEN FALSE
    ELSE IF a = <<>> THEN TRUE
    ELSE IF Head(a) # Head(b) THEN Head(a) < Head(b)
    ELSE LexLess(Tail(a), Tail(b))

\* the ^ operator on one hexadecimal digit
XorNib(a, b) ==
      ((a + b) % 2)
    + 2 * (((a \div 2) + (b \div 2)) % 2)
    + 4 * (((a \div 4) + (b \div 4)) % 2)
    + 8 * (((a \div 8) + (b \div 8)) % 2)

\* the ^ operator on two words of the same width
Xor(x, y) == [i \in 1..Len(x) |-> XorNib(x[i], y[i])]

\* `as u64` of a u32: zero extension
AsU64(w) == Zeros(16 - Len(w)) \o w

\* `as u32` / `as u64` of a small non-negative number, as a word of n digits
RECURSIVE ToWord(_, _)
ToWord(v, n) ==
    IF n = 0 THEN <<>> ELSE Append(ToWord(v \div 16, n - 1), v % 16)

\* a word is small when it is below 2^31; only small words are positions
\* or sizes of a modelled file
IsSmall(w) ==
    /\ \A i \in 1..(Len(w) - 8) : w[i] = 0
    /\ w[Len(w) - 7] < 8

RECURSIVE NatOf(_)
NatOf(w) == IF w = <<>> THEN 0 ELSE 16 * NatOf(SubSeq(w, 1, Len(w) - 1)) + w[Len(w)]

\* the number a small word stands for
ToNat(w) == NatOf(SubSeq(w, Len(w) - 7, Len(w)))

\* u32::from_le_bytes
FromLeBytes(b) ==
    << b[4] \div 16, b[4] % 16, b[3] \div 16, b[3] % 16,
       b[2] \div 16, b[2] % 16, b[1] \div 16, b[1] % 16 >>

HexDigit(c) ==
    IF c \in 48..57 THEN c - 48
    ELSE IF c \in 97..102 THEN c - 87
    ELSE IF c \in 65..70 THEN c - 55
    ELSE 16

RECURSIVE StripZeros(_)
StripZeros(d) ==
    IF d # <<>> /\ Head(d) = 0 THEN StripZeros(Tail(d)) ELSE d

\* u32::from_str_radix(s, 16) (n = 8) and u64::from_str_radix(s, 16)
\* (n = 16): an optional '+', then one or more hexadecimal digits of either
\* case; an empty string, another character or a value too large is Err
FromStrRadix16(s, n) ==
    LET Value(digs, sig) ==
            IF digs = <<>> \/ (\E i \in 1..Len(digs) : digs[i] = 16) \/ Len(sig) > n
            THEN [ok |-> FALSE, w |-> Zeros(n)]
            ELSE [ok |-> TRUE, w |-> Zeros(n - Len(sig)) \o sig]
        Digits(digs) == Value(digs, StripZeros(digs))
        Body(body) == Digits([i \in 1..Len(body) |-> HexDigit(body[i])])
    IN  Body(IF s # <<>> /\ Head(s) = 43 THEN Tail(s) ELSE s)

\* format!("{:016x}") of a u64 and format!("{:08x}") of a u32: lower case
LowerHex(w) == [i \in 1..Len(w) |-> IF w[i] < 10 THEN 48 + w[i] ELSE 87 + w[i]]

\* char::is_whitespace on ASCII
IsWhitespace(c) == c = 32 \/ c \in 9..13

\* str::split_whitespace: the maximal runs of non-whitespace characters
RECURSIVE SplitWhitespace(_)
SplitWhitespace(s) ==
    IF s = <<>> THEN <<>>
    ELSE IF IsWhitespace(Head(s)) THEN SplitWhitespace(Tail(s))
    ELSE LET Cut(stop) ==
                 <<SubSeq(s, 1, stop - 1)>> \o SplitWhitespace(Drop(s, stop - 1))
         IN  Cut(Min({i \in 1..Len(s) : IsWhitespace(s[i])} \cup {Len(s) + 1}))

(***************************************************************************)
(* The disk.  A file is its bytes up to the compressed index block (pre)   *)
(* and that block (idx, <<>> when the file has none).  The block is kept   *)
(* as what it decompresses to: the bytes (raw) and the value serde_pickle  *)
(* decodes from them (val); zok is whether it is a zlib stream at all.     *)
(* The compressed bytes themselves are opaque (byte 256).                  *)
(***************************************************************************)

\* length of a compressed index block on disk
BlobLen == 6

NoFile == [exists |-> FALSE, pre |-> <<>>, idx |-> <<>>]

PlainFile(bytes) == [exists |-> TRUE, pre |-> bytes, idx |-> <<>>]

ArchiveFile(bytes, buf) == [exists |-> TRUE, pre |-> bytes, idx |-> <<buf>>]

\* std::fs::read: every byte of the file
FileBytes(f) ==
    f.pre \o (IF f.idx = <<>> THEN <<>> ELSE [i \in 1..BlobLen |-> 256])

\* pickle values (serde_pickle::Value); a Dict is a sequence of key/value
\* pairs with distinct String keys, k being the key's text
VInt(w)    == [t |-> "I64",   w |-> w,    b |-> <<>>, items |-> <<>>]
VBytes(b)  == [t |-> "Bytes", w |-> <<>>, b |-> b,    items |-> <<>>]
VStr(b)    == [t |-> "Str",   w |-> <<>>, b |-> b,    items |-> <<>>]
VList(xs)  == [t |-> "List",  w |-> <<>>, b |-> <<>>, items |-> xs]
VTuple(xs) == [t |-> "Tuple", w |-> <<>>, b |-> <<>>, items |-> xs]
VDict(kvs) == [t |-> "Dict",  w |-> <<>>, b |-> <<>>, items |-> kvs]
\* value_from_slice returned Err: the bytes are no pickle
VError     == [t |-> "Error", w |-> <<>>, b |-> <<>>, items |-> <<>>]

Buffer(raw, val) == [zok |-> TRUE, raw |-> raw, val |-> val]

BadZlib == [zok |-> FALSE, raw |-> <<>>, val |-> VError]

(***************************************************************************)
(* The Entry Store                                                         *)
(***************************************************************************)

\* RpaFileEntry; data is <<>> (None) or <<bytes>> (Some)
Entry(off, len, prefix, data, mod, del) ==
    [offset |-> off, length |-> len, prefix |-> prefix, data |-> data,
     modified |-> mod, to_delete |-> del]

\* HashMap::new
EmptyMap == [n \in {} |-> 0]

\* HashMap::insert
Insert(m, k, v) ==
    [n \in DOMAIN m \cup {k} |-> IF n = k THEN v ELSE m[n]]

\* Default for RpaEditor / unload_rpa: version 3.2, key 0xDEADBEEF
DefaultVersion == 32

DefaultKey == <<13, 14, 10, 13, 11, 14, 14, 15>>

(***************************************************************************)
(* Header parser and version detection                                     *)
(***************************************************************************)

\* "RPA-3.2 ", "RPA-3.0 ", "RPA-2"
Tag32 == <<82, 80, 65, 45, 51, 46, 50, 32>>
Tag30 == <<82, 80, 65, 45, 51, 46, 48, 32>>
Tag2  == <<82, 80, 65, 45, 50>>

\* get_version that matches the tags without the space that ends them
get_version_no_space(f) ==
    LET Classify(header) ==
            IF StartsWith(header, SubSeq(Tag32, 1, 7)) THEN 32
            ELSE IF StartsWith(header, SubSeq(Tag30, 1, 7)) THEN 30
            ELSE IF StartsWith(header, Tag2) THEN 20
            ELSE 0
    IN  IF Len(FileBytes(f)) < 32 THEN 0
        ELSE Classify(SubSeq(FileBytes(f), 1, 32))

\* get_version: 0 stands for Err (a file below 32 bytes, or no known tag)
get_version(f) ==
    LET Classify(header) ==
            IF StartsWith(header, Tag32) THEN 32
            ELSE IF StartsWith(header, Tag30) THEN 30
            ELSE IF StartsWith(header, Tag2) THEN 20
            ELSE 0
    IN  IF Len(FileBytes(f)) < 32 THEN 0
        ELSE Classify(SubSeq(FileBytes(f), 1, 32))

\* the first line of the file: the bytes before the first line feed
HeaderLine(bytes) ==
    SubSeq(bytes, 1, Min({i \in 1..Len(bytes) : bytes[i] = 10} \cup {Len(bytes) + 1}) - 1)

\* key fragments that start at token 2 whatever the version
key_start_at_two(ver) == 2

\* where the key fragments start among the header's tokens (0-based)
key_start(ver) == IF ver >= 32 THEN 3 ELSE 2

\* a key loop that keeps the last fragment instead of folding
RECURSIVE FoldKeyAssign(_, _)
FoldKeyAssign(k, frags) ==
    IF frags = <<>> THEN [ok |-> TRUE, key |-> k]
    ELSE LET Fold(subkey) ==
                 IF ~subkey.ok THEN [ok |-> FALSE, key |-> k]
                 ELSE FoldKeyAssign(subkey.w, Tail(frags))
         IN  Fold(FromStrRadix16(Head(frags), 8))

\* the key loop of extract_indexes over the fragments still to fold:
\* Err at the first malformed fragment, with the key folded so far
RECURSIVE FoldKey(_, _)
FoldKey(k, frags) ==
    IF frags = <<>> THEN [ok |-> TRUE, key |-> k]
    ELSE LET Fold(subkey) ==
                 IF ~subkey.ok THEN [ok |-> FALSE, key |-> k]
                 ELSE FoldKey(Xor(k, subkey.w), Tail(frags))
         IN  Fold(FromStrRadix16(Head(frags), 8))

\* the header part of extract_indexes, for session version ver and key k:
\* the index offset and the key.  status is "ok", "err" (a `?` returned) or
\* "panic" (parts[1] or parts[key_start..] out of range)
ParseHeader(ver, k, f) ==
    LET Keyed(offset, folded) ==
            [status |-> IF folded.ok THEN "ok" ELSE "err",
             key |-> folded.key, offset |-> offset.w]
        Parsed(parts, offset) ==
            IF ~offset.ok
            THEN [status |-> "err", key |-> k, offset |-> Zeros(16)]
            ELSE IF ver < 30
            THEN [status |-> "ok", key |-> k, offset |-> offset.w]
            ELSE IF key_start(ver) > Len(parts)
            THEN [status |-> "panic", key |-> Zeros(8), offset |-> offset.w]
            ELSE Keyed(offset,
                     FoldKey(Zeros(8), SubSeq(parts, key_start(ver) + 1, Len(parts))))
        Split(parts) ==
            IF Len(parts) < 2
            THEN [status |-> "panic", key |-> k, offset |-> Zeros(16)]
            ELSE Parsed(parts, FromStrRadix16(parts[2], 16))
    IN  Split(SplitWhitespace(HeaderLine(FileBytes(f))))

\* seek to the offset, read to the end and inflate.  Only the block at its
\* own position is a zlib stream; a position at or past the end of the file
\* reads nothing, which flate2 inflates to nothing; any other position
\* holds bytes that are no zlib stream.  A position of 2^63 or more makes
\* seek fail.
Decompress(f, offset) ==
    LET At(pos) ==
            IF pos >= Len(FileBytes(f))
            THEN [ok |-> TRUE, buf |-> Buffer(<<>>, VError)]
            ELSE IF f.idx # <<>> /\ pos = Len(f.pre) /\ f.idx[1].zok
            THEN [ok |-> TRUE, buf |-> f.idx[1]]
            ELSE [ok |-> FALSE, buf |-> BadZlib]
    IN  IF offset[1] >= 8 THEN [ok |-> FALSE, buf |-> BadZlib]
        ELSE IF ~IsSmall(offset) THEN [ok |-> TRUE, buf |-> Buffer(<<>>, VError)]
        ELSE At(ToNat(offset))

(***************************************************************************)
(* Index decoder                                                           *)
(***************************************************************************)

\* key.to_string().replace("\"", ""): Display of a String key is its text
\* between double quotes (34); every double quote is then removed.  Key
\* texts hold no character that Display would escape.
KeyToFilename(k) == SelectSeq(<<34>> \o k \o <<34>>, LAMBDA c : c # 34)

\* the `if let` chain of parse_index_pickle on one dict value: a list of
\* exactly one tuple of exactly three values (I64, I64, Bytes)
\* a tuple test that looks at the first three items only
TupleStartsOk(tuple) ==
    /\ Len(tuple) >= 3
    /\ tuple[1].t = "I64"
    /\ tuple[2].t = "I64"
    /\ tuple[3].t = "Bytes"

TupleOk(tuple) ==
    /\ Len(tuple) = 3
    /\ tuple[1].t = "I64"
    /\ tuple[2].t = "I64"
    /\ tuple[3].t = "Bytes"

ShapeOk(val) ==
    /\ val.t = "List"
    /\ Len(val.items) = 1
    /\ val.items[1].t = "Tuple"
    /\ TupleOk(val.items[1].items)

\* a decoder that puts the key into the upper half of the 64 bits
DecodeEntryHighKey(k, tuple) ==
    Entry(Xor(tuple[1].w, k \o Zeros(8)), Xor(tuple[2].w, k \o Zeros(8)),
          tuple[3].b, <<>>, FALSE, FALSE)

\* the entry parse_index_pickle builds from the tuple of such a value
DecodeEntry(k, tuple) ==
    Entry(Xor(tuple[1].w, AsU64(k)), Xor(tuple[2].w, AsU64(k)),
          tuple[3].b, <<>>, FALSE, FALSE)

\* the loop of parse_index_pickle over the dict's pairs
RECURSIVE DecodePairs(_, _, _)
DecodePairs(k, kvs, acc) ==
    IF kvs = <<>> THEN acc
    ELSE DecodePairs(k, Tail(kvs),
             IF ShapeOk(Head(kvs).v)
             THEN Insert(acc, KeyToFilename(Head(kvs).k),
                         DecodeEntry(k, Head(kvs).v.items[1].items))
             ELSE acc)

\* parse_index_pickle with session key k on a decompressed buffer
parse_index_pickle(k, buf) ==
    IF buf.val.t = "Dict"
    THEN [ok |-> TRUE, indexes |-> DecodePairs(k, buf.val.items, EmptyMap)]
    ELSE [ok |-> FALSE, indexes |-> EmptyMap]

\* load_entries_data: the eager read of every entry only logs what it
\* cannot read; the one `?` that fires is seek to a position of 2^63 or more
load_entries_data(index) ==
    \A n \in DOMAIN index : index[n].offset[1] < 8

(***************************************************************************)
(* Heuristic index recovery.  Positions are 0-based as in the source:      *)
(* data[pos] there is data[pos + 1] here.                                  *)
(***************************************************************************)

\* u8::is_ascii_graphic: '!' ..= '~'
IsAsciiGraphic(c) == c \in 33..126

\* is_valid_char of extract_filename_at_pos: graphic and none of "\:*?<>|
IsValidChar(c) ==
    IsAsciiGraphic(c) /\ c \notin {34, 92, 58, 42, 63, 60, 62, 124}

\* ".png", ".jpg", ".jpeg", ".webp", ".webm", ".avi", ".mp4", ".mov",
\* ".ogg", ".wav", ".mp3", ".flac", ".rpy", ".rpyc"
Extensions ==
    { <<46, 112, 110, 103>>, <<46, 106, 112, 103>>,
      <<46, 106, 112, 101, 103>>, <<46, 119, 101, 98, 112>>,
      <<46, 119, 101, 98, 109>>, <<46, 97, 118, 105>>,
      <<46, 109, 112, 52>>, <<46, 109, 111, 118>>, <<46, 111, 103, 103>>,
      <<46, 119, 97, 118>>, <<46, 109, 112, 51>>,
      <<46, 102, 108, 97, 99>>, <<46, 114, 112, 121>>,
      <<46, 114, 112, 121, 99>> }

is_valid_filename(filename) ==
    /\ ~(Len(filename) < 2 \/ Len(filename) > 200)
    /\ \E ext \in Extensions : EndsWith(filename, ext)

\* a sanity filter that accepts offset 50
is_reasonable_from_fifty(offset, length) ==
    /\ IsSmall(offset) /\ IsSmall(length)
    /\ ToNat(offset) >= 50
    /\ ToNat(offset) < 2000000000
    /\ ToNat(length) > 0
    /\ ToNat(length) < 500000000
    /\ ToNat(offset) < 2000000000 - ToNat(length)

\* is_reasonable_entry on two u64 that came from u32 values; the last
\* conjunct is offset + length < 2_000_000_000 without leaving 32 bits
is_reasonable_entry(offset, length) ==
    /\ IsSmall(offset) /\ IsSmall(length)
    /\ ToNat(offset) > 50
    /\ ToNat(offset) < 2000000000
    /\ ToNat(length) > 0
    /\ ToNat(length) < 500000000
    /\ ToNat(offset) < 2000000000 - ToNat(length)

\* extract_filename_at_pos: skip to the first graphic byte, take the run
\* of valid characters, accept it if it is a valid filename
extract_filename_at_pos(data, start_pos) ==
    LET None == [some |-> FALSE, filename |-> <<>>, end |-> 0]
        Named(filename, pos) ==
            IF is_valid_filename(filename)
            THEN [some |-> TRUE, filename |-> filename, end |-> pos]
            ELSE None
        Run(filename_start, pos) ==
            Named(SubSeq(data, filename_start + 1, pos), pos)
        From(filename_start) ==
            Run(filename_start,
                Min({p \in filename_start..(Len(data) - 1) : ~IsValidChar(data[p + 1])}
                    \cup {Len(data)}))
        Skip(pos) == IF pos >= Len(data) THEN None ELSE From(pos)
    IN  Skip(Min({p \in start_pos..(Len(data) - 1) : IsAsciiGraphic(data[p + 1])}
                 \cup {Len(data)}))

\* the two values extract_j_values_at reads at pos and next_pos, unmasked
JPair(k, data, pos, next_pos) ==
    [offset |-> AsU64(Xor(FromLeBytes(SubSeq(data, pos + 2, pos + 5)), k)),
     length |-> AsU64(Xor(FromLeBytes(SubSeq(data, next_pos + 2, next_pos + 5)), k))]

JPairOk(pair) == is_reasonable_entry(pair.offset, pair.length)

\* extract_j_values_at: a 'J' (74) and its four bytes at pos, then the
\* first 'J' among pos+5 .. pos+14 whose value makes the pair reasonable
extract_j_values_at(k, data, pos) ==
    LET None == [some |-> FALSE, offset |-> Zeros(16), length |-> Zeros(16)]
        Some(pair) == [some |-> TRUE, offset |-> pair.offset, length |-> pair.length]
        First(hits) ==
            IF hits = {} THEN None ELSE Some(JPair(k, data, pos, Min(hits)))
    IN  IF pos + 9 < Len(data) /\ data[pos + 1] = 74
        THEN First({next_pos \in (pos + 5)..(pos + 14) :
                       /\ next_pos + 4 < Len(data)
                       /\ data[next_pos + 1] = 74
                       /\ JPairOk(JPair(k, data, pos, next_pos))})
        ELSE None

\* extract_j_values_at gave a pair and it is reasonable
JFound(found) == found.some /\ is_reasonable_entry(found.offset, found.length)

\* a search for the markers in the 200 bytes after the filename
find_entry_data_within_200(k, data, start_pos) ==
    LET Some(found) ==
            [some |-> TRUE,
             entry |-> Entry(found.offset, found.length, <<>>, <<>>, FALSE, FALSE)]
        First(hits) ==
            IF hits = {}
            THEN [some |-> FALSE, entry |-> Entry(<<>>, <<>>, <<>>, <<>>, FALSE, FALSE)]
            ELSE Some(extract_j_values_at(k, data, Min(hits)))
        Search(search_end) ==
            First({pos \in start_pos..(search_end - 1) :
                      /\ pos + 10 < Len(data)
                      /\ data[pos + 1] = 74
                      /\ JFound(extract_j_values_at(k, data, pos))})
    IN  Search(IF start_pos + 200 < Len(data) THEN start_pos + 200 ELSE Len(data))

\* find_entry_data_after_filename: the first position of the 100 bytes
\* after the filename where extract_j_values_at gives a reasonable pair
find_entry_data_after_filename(k, data, start_pos) ==
    LET Some(found) ==
            [some |-> TRUE,
             entry |-> Entry(found.offset, found.length, <<>>, <<>>, FALSE, FALSE)]
        First(hits) ==
            IF hits = {}
            THEN [some |-> FALSE, entry |-> Entry(<<>>, <<>>, <<>>, <<>>, FALSE, FALSE)]
            ELSE Some(extract_j_values_at(k, data, Min(hits)))
        Search(search_end) ==
            First({pos \in start_pos..(search_end - 1) :
                      /\ pos + 10 < Len(data)
                      /\ data[pos + 1] = 74
                      /\ JFound(extract_j_values_at(k, data, pos))})
    IN  Search(IF start_pos + 100 < Len(data) THEN start_pos + 100 ELSE Len(data))

\* an iteration that moves the cursor by one byte past a rejected token
ScanStepByOne(k, data, pos, acc) ==
    LET Entered(name, hit) ==
            IF hit.some
            THEN [pos |-> name.end + 50,
                  indexes |-> Insert(acc, name.filename, hit.entry)]
            ELSE [pos |-> pos + 1, indexes |-> acc]
        Named(name) ==
            IF name.some
            THEN Entered(name, find_entry_data_after_filename(k, data, name.end))
            ELSE [pos |-> pos + 1, indexes |-> acc]
    IN  Named(extract_filename_at_pos(data, pos))

\* an iteration that leaves the cursor where it is on a rejected token
ScanStepStall(k, data, pos, acc) ==
    LET Entered(name, hit) ==
            IF hit.some
            THEN [pos |-> name.end + 50,
                  indexes |-> Insert(acc, name.filename, hit.entry)]
            ELSE [pos |-> pos, indexes |-> acc]
        Named(name) ==
            IF name.some
            THEN Entered(name, find_entry_data_after_filename(k, data, name.end))
            ELSE [pos |-> pos + 1, indexes |-> acc]
    IN  Named(extract_filename_at_pos(data, pos))

\* one iteration of the loop of parse_binary_dict at pos: the next cursor
\* and the store
ScanStep(k, data, pos, acc) ==
    LET Entered(name, hit) ==
            IF hit.some
            THEN [pos |-> name.end + 50,
                  indexes |-> Insert(acc, name.filename, hit.entry)]
            ELSE [pos |-> name.end, indexes |-> acc]
        Named(name) ==
            IF name.some
            THEN Entered(name, find_entry_data_after_filename(k, data, name.end))
            ELSE [pos |-> pos + 1, indexes |-> acc]
    IN  Named(extract_filename_at_pos(data, pos))

\* the loop of parse_binary_dict: its body runs while pos < data.len()
ScanBody(k, data, st) ==
    IF st.pos < Len(data) THEN ScanStep(k, data, st.pos, st.indexes) ELSE st

\* n runs of the loop from state st (the cursor and the store), the runs
\* after the loop's end leaving the state as it is; the first half of the
\* runs is evaluated (its cursor looked at) before the second half starts
RECURSIVE ScanRuns(_, _, _, _)
ScanRuns(k, data, n, st) ==
    IF n = 0 THEN st
    ELSE IF n = 1 THEN ScanBody(k, data, st)
    ELSE LET Rest(mid) ==
                 IF mid.pos < 0 THEN mid ELSE ScanRuns(k, data, n - (n \div 2), mid)
         IN  Rest(ScanRuns(k, data, n \div 2, st))

\* the loop from cursor pos on: every run moves the cursor forward by at
\* least one, so the loop has ended after Len(data) - pos runs
ScanFrom(k, data, pos, acc) ==
    ScanRuns(k, data, Len(data) - pos, [pos |-> pos, indexes |-> acc]).indexes

\* parse_binary_dict with session key k
parse_binary_dict(k, data) == ScanFrom(k, data, 0, EmptyMap)

(***************************************************************************)
(* Load                                                                    *)
(***************************************************************************)

\* extract_indexes to which a failed structured decode is fatal
extract_indexes_strict(ver, k, f) ==
    LET Out(status, hdr, index) ==
            [status |-> status, key |-> hdr.key, indexes |-> index,
             offset |-> hdr.offset]
        Decoded(hdr, z, decoded) ==
            IF decoded.ok
            THEN Out(IF load_entries_data(decoded.indexes) THEN "ok" ELSE "err",
                     hdr, decoded.indexes)
            ELSE Out("err", hdr, EmptyMap)
        Inflated(hdr, z) ==
            IF ~z.ok THEN Out("err", hdr, EmptyMap)
            ELSE Decoded(hdr, z, parse_index_pickle(hdr.key, z.buf))
        Header(hdr) ==
            IF hdr.status # "ok" THEN Out(hdr.status, hdr, EmptyMap)
            ELSE Inflated(hdr, Decompress(f, hdr.offset))
    IN  Header(ParseHeader(ver, k, f))

\* extract_indexes for session version ver and key k: the header, the
\* inflated block, structured decode and, when that fails, heuristic
\* recovery.  key is self.key as the call leaves it, whatever the status.
extract_indexes(ver, k, f) ==
    LET Out(status, hdr, index) ==
            [status |-> status, key |-> hdr.key, indexes |-> index,
             offset |-> hdr.offset]
        Decoded(hdr, z, decoded) ==
            IF decoded.ok
            THEN Out(IF load_entries_data(decoded.indexes) THEN "ok" ELSE "err",
                     hdr, decoded.indexes)
            ELSE Out("ok", hdr, parse_binary_dict(hdr.key, z.buf.raw))
        Inflated(hdr, z) ==
            IF ~z.ok THEN Out("err", hdr, EmptyMap)
            ELSE Decoded(hdr, z, parse_index_pickle(hdr.key, z.buf))
        Header(hdr) ==
            IF hdr.status # "ok" THEN Out(hdr.status, hdr, EmptyMap)
            ELSE Inflated(hdr, Decompress(f, hdr.offset))
    IN  Header(ParseHeader(ver, k, f))

\* a load that keeps the entries of the store whose filenames the loaded
\* file does not hold
load_rpa_keeping(s, d, path) ==
    LET Merged(new) ==
            [n \in DOMAIN s.indexes \cup DOMAIN new |->
                IF n \in DOMAIN new THEN new[n] ELSE s.indexes[n]]
        Extracted(ver, ext) ==
            IF ext.status # "ok"
            THEN [status |-> ext.status,
                  s |-> [s EXCEPT !.version = ver, !.key = ext.key],
                  offset |-> ext.offset]
            ELSE [status |-> "ok",
                  s |-> [version |-> ver, key |-> ext.key, indexes |-> Merged(ext.indexes),
                         archive_path |-> <<path>>, modified |-> FALSE],
                  offset |-> ext.offset]
        Versioned(ver) ==
            IF ver = 0
            THEN [status |-> "err", s |-> s, offset |-> Zeros(16)]
            ELSE Extracted(ver, extract_indexes(ver, s.key, d[path]))
    IN  IF ~d[path].exists
        THEN [status |-> "err", s |-> s, offset |-> Zeros(16)]
        ELSE Versioned(get_version(d[path]))

\* load_rpa(path) from session state s on disk d: the status and the
\* session state it leaves.  File::open and get_version fail before any
\* assignment; self.version is assigned before extract_indexes runs, and
\* the other fields only after it returned Ok.
load_rpa(s, d, path) ==
    LET Extracted(ver, ext) ==
            IF ext.status # "ok"
            THEN [status |-> ext.status,
                  s |-> [s EXCEPT !.version = ver, !.key = ext.key],
                  offset |-> ext.offset]
            ELSE [status |-> "ok",
                  s |-> [version |-> ver, key |-> ext.key, indexes |-> ext.indexes,
                         archive_path |-> <<path>>, modified |-> FALSE],
                  offset |-> ext.offset]
        Versioned(ver) ==
            IF ver = 0
            THEN [status |-> "err", s |-> s, offset |-> Zeros(16)]
            ELSE Extracted(ver, extract_indexes(ver, s.key, d[path]))
    IN  IF ~d[path].exists
        THEN [status |-> "err", s |-> s, offset |-> Zeros(16)]
        ELSE Versioned(get_version(d[path]))

\* unload_rpa: back to the defaults
unload_rpa ==
    [version |-> DefaultVersion, key |-> DefaultKey, indexes |-> EmptyMap,
     archive_path |-> <<>>, modified |-> FALSE]

(***************************************************************************)
(* Entry data accessor                                                     *)
(***************************************************************************)

\* a read that returns the bytes the file holds of the n asked for
ReadAtShort(bytes, offset, n) ==
    IF offset[1] >= 8 THEN [ok |-> FALSE, bytes |-> <<>>]
    ELSE IF n = 0 THEN [ok |-> TRUE, bytes |-> <<>>]
    ELSE IF IsSmall(offset)
    THEN [ok |-> TRUE,
          bytes |-> SubSeq(bytes, ToNat(offset) + 1,
                           IF ToNat(offset) + n <= Len(bytes)
                           THEN ToNat(offset) + n ELSE Len(bytes))]
    ELSE [ok |-> FALSE, bytes |-> <<>>]

\* File::seek(Start(offset)) then read_exact of n bytes: Err when the
\* position is 2^63 or more or the file ends before n bytes were read
ReadAt(bytes, offset, n) ==
    IF offset[1] >= 8 THEN [ok |-> FALSE, bytes |-> <<>>]
    ELSE IF n = 0 THEN [ok |-> TRUE, bytes |-> <<>>]
    ELSE IF IsSmall(offset) /\ ToNat(offset) <= Len(bytes)
            /\ n <= Len(bytes) - ToNat(offset)
    THEN [ok |-> TRUE,
          bytes |-> SubSeq(bytes, ToNat(offset) + 1, ToNat(offset) + n)]
    ELSE [ok |-> FALSE, bytes |-> <<>>]

\* a read of length bytes at the offset that leaves the prefix out
ReadEntryNoPrefix(entry, f) ==
    LET Content(buffer) ==
            IF buffer.ok
            THEN [status |-> "ok", data |-> buffer.bytes]
            ELSE [status |-> "err", data |-> <<>>]
    IN  IF ~f.exists \/ entry.offset[1] >= 8 \/ ~IsSmall(entry.length)
        THEN [status |-> "err", data |-> <<>>]
        ELSE Content(ReadAt(FileBytes(f), entry.offset, ToNat(entry.length)))

\* the file part of load_file_data for an entry without override.  length
\* - prefix.len() below zero is an arithmetic overflow: a panic, or a
\* wrapped length whose buffer cannot be allocated.  A length of 2^31 or
\* more is past the end of every file.
ReadEntry(entry, f) ==
    LET Content(buffer) ==
            IF buffer.ok
            THEN [status |-> "ok", data |-> entry.prefix \o buffer.bytes]
            ELSE [status |-> "err", data |-> <<>>]
        Remaining(remaining_length) ==
            IF remaining_length < 0
            THEN [status |-> "panic", data |-> <<>>]
            ELSE Content(ReadAt(FileBytes(f), entry.offset, remaining_length))
    IN  IF ~f.exists \/ entry.offset[1] >= 8 \/ ~IsSmall(entry.length)
        THEN [status |-> "err", data |-> <<>>]
        ELSE Remaining(ToNat(entry.length) - Len(entry.prefix))

\* load_file_data(filename) in session state s on disk d
load_file_data(s, d, filename) ==
    IF filename \notin DOMAIN s.indexes
    THEN [status |-> "err", data |-> <<>>]
    ELSE IF s.indexes[filename].data # <<>>
    THEN [status |-> "ok", data |-> s.indexes[filename].data[1]]
    ELSE IF s.archive_path = <<>>
    THEN [status |-> "err", data |-> <<>>]
    ELSE ReadEntry(s.indexes[filename], d[s.archive_path[1]])

(***************************************************************************)
(* Edit operations                                                         *)
(***************************************************************************)

\* the entry replace_file leaves
Replaced(entry, new_data) ==
    [entry EXCEPT !.data = <<new_data>>, !.modified = TRUE,
                  !.length = ToWord(Len(new_data), 16)]

\* replace_file that marks the entry and the session modified but keeps
\* the entry's data and length
replace_file_unstored(s, d, filename, new_file_path) ==
    IF filename \notin DOMAIN d \/ ~d[filename].exists
    THEN [status |-> "err", s |-> s]
    ELSE IF new_file_path \notin DOMAIN s.indexes
    THEN [status |-> "err", s |-> s]
    ELSE [status |-> "ok",
          s |-> [s EXCEPT
                   !.indexes = Insert(s.indexes, new_file_path,
                       [s.indexes[new_file_path] EXCEPT !.modified = TRUE]),
                   !.modified = TRUE]]

\* replace_file(filename, new_file_path): the bytes are read from the disk
\* path `filename`, and the entry replaced is indexes[new_file_path]
replace_file(s, d, filename, new_file_path) ==
    IF filename \notin DOMAIN d \/ ~d[filename].exists
    THEN [status |-> "err", s |-> s]
    ELSE IF new_file_path \notin DOMAIN s.indexes
    THEN [status |-> "err", s |-> s]
    ELSE [status |-> "ok",
          s |-> [s EXCEPT
                   !.indexes = Insert(s.indexes, new_file_path,
                       Replaced(s.indexes[new_file_path], FileBytes(d[filename]))),
                   !.modified = TRUE]]

\* the backup ring's cap
MaxBackups == 10

\* BackupEntry (its timestamp is not modelled)
Backup(filename, data) == [filename |-> filename, data |-> data]

\* a push that drops the newest past the cap
PushBackupDropNewest(history, backup) ==
    IF Len(Append(history, backup)) > MaxBackups
    THEN history
    ELSE Append(history, backup)

\* the backup part of add_file: push, then drop the oldest past the cap
PushBackup(history, backup) ==
    IF Len(Append(history, backup)) > MaxBackups
    THEN Tail(Append(history, backup))
    ELSE Append(history, backup)

\* the entry add_file inserts
Added(data) == Entry(Zeros(16), ToWord(Len(data), 16), <<>>, <<data>>, TRUE, FALSE)

\* add_file(file_path, archive_name) with backup history h and the
\* auto_backup flag ab
add_file(s, h, ab, d, file_path, archive_name) ==
    LET Inserted(after, old) ==
            IF ab /\ archive_name \in DOMAIN s.indexes
            THEN IF old.status = "panic"
                 THEN [status |-> "panic", s |-> s, h |-> h]
                 ELSE IF old.status = "ok"
                 THEN [status |-> "ok", s |-> after,
                       h |-> PushBackup(h, Backup(archive_name, old.data))]
                 ELSE [status |-> "ok", s |-> after, h |-> h]
            ELSE [status |-> "ok", s |-> after, h |-> h]
    IN  IF file_path \notin DOMAIN d \/ ~d[file_path].exists
        THEN [status |-> "err", s |-> s, h |-> h]
        ELSE Inserted([s EXCEPT !.indexes = Insert(s.indexes, archive_name,
                                               Added(FileBytes(d[file_path]))),
                                !.modified = TRUE],
                      load_file_data(s, d, archive_name))

\* a remove_file that marks the entry and not the session
remove_file_quiet(s, filename) ==
    IF filename \in DOMAIN s.indexes
    THEN [s EXCEPT !.indexes = Insert(s.indexes, filename,
                        [s.indexes[filename] EXCEPT !.to_delete = TRUE])]
    ELSE s

\* remove_file(filename)
remove_file(s, filename) ==
    IF filename \in DOMAIN s.indexes
    THEN [s EXCEPT !.indexes = Insert(s.indexes, filename,
                        [s.indexes[filename] EXCEPT !.to_delete = TRUE]),
                   !.modified = TRUE]
    ELSE s

\* the Restore button of the backup dialog (main.rs)
restore_backup(s, backup) ==
    [s EXCEPT !.indexes = Insert(s.indexes, backup.filename,
                  Entry(Zeros(16), ToWord(Len(backup.data), 16), <<>>,
                        <<backup.data>>, TRUE, FALSE)),
              !.modified = TRUE]

\* Path::file_name: what follows the last '/' (47) of a path
FileName(path) ==
    SubSeq(path, Min({i \in 1..(Len(path) + 1) : \A j \in i..Len(path) : path[j] # 47}),
           Len(path))

\* the folder of a path: what precedes its last '/'
Parent(path) == SubSeq(path, 1, Len(path) - Len(FileName(path)) - 1)

\* std::fs::read_dir(folder) on disk d: the paths of the regular files
\* of the folder (the disks of the model hold no folder inside a folder)
read_dir(d, folder) ==
    {p \in DOMAIN d : d[p].exists /\ Len(FileName(p)) < Len(p) /\ Parent(p) = folder}

\* the loop of batch_replace_from_folder over the entries read_dir
\* yields: replace_file(file name, full path) for each file name that is
\* a key of the store, counting the calls that returned Ok
RECURSIVE BatchLoop(_, _, _, _)
BatchLoop(s, d, entries, replaced_count) ==
    IF entries = <<>>
    THEN [status |-> "ok", s |-> s, count |-> replaced_count]
    ELSE LET Replace_(r) ==
                 BatchLoop(r.s, d, Tail(entries),
                           IF r.status = "ok" THEN replaced_count + 1 ELSE replaced_count)
         IN  IF FileName(Head(entries)) \in DOMAIN s.indexes
             THEN Replace_(replace_file(s, d, FileName(Head(entries)), Head(entries)))
             ELSE BatchLoop(s, d, Tail(entries), replaced_count)

\* batch_replace_from_folder(folder_path), read_dir yielding the entries
\* in `order`; Err when the folder cannot be read
batch_replace_from_folder(s, d, folder_path, order) ==
    IF read_dir(d, folder_path) = {}
    THEN [status |-> "err", s |-> s, count |-> 0]
    ELSE BatchLoop(s, d, order, 0)

\* the orders in which read_dir can yield the entries of a folder
DirOrders(d, folder) ==
    {o \in [1..Cardinality(read_dir(d, folder)) -> read_dir(d, folder)] :
        \A x \in read_dir(d, folder) : \E i \in DOMAIN o : o[i] = x}

(***************************************************************************)
(* Archive rebuilder                                                       *)
(***************************************************************************)

\* let mut offset = 0x34: where the payloads start in the output
HeaderRegion == 52

\* "RPA-2.0 "
Tag20Out == <<82, 80, 65, 45, 50, 46, 48, 32>>

\* Vec::sort_by_key on the filenames: insertion into the sorted rest
RECURSIVE sort_by_key(_)
sort_by_key(names) ==
    IF names = <<>> THEN <<>>
    ELSE LET Place(rest, less) ==
                 less \o <<Head(names)>> \o SubSeq(rest, Len(less) + 1, Len(rest))
             Into(rest) ==
                 Place(rest, SelectSeq(rest, LAMBDA n : LexLess(n, Head(names))))
         IN  Into(sort_by_key(Tail(names)))

\* a payload taken from the bytes the original file does hold of the extent
SavePayloadClamped(entry, old_data) ==
    IF entry.data # <<>> THEN [ok |-> TRUE, data |-> entry.data[1]]
    ELSE IF IsSmall(entry.offset) /\ IsSmall(entry.length)
    THEN [ok |-> TRUE,
          data |-> SubSeq(old_data, ToNat(entry.offset) + 1,
                          IF ToNat(entry.offset) + ToNat(entry.length) <= Len(old_data)
                          THEN ToNat(entry.offset) + ToNat(entry.length)
                          ELSE Len(old_data))]
    ELSE [ok |-> FALSE, data |-> <<>>]

\* the payload save_rpa writes for an entry: the override, or the slice
\* old_data[offset .. offset + length] of the original file (None when it
\* does not lie inside the file)
SavePayload(entry, old_data) ==
    IF entry.data # <<>> THEN [ok |-> TRUE, data |-> entry.data[1]]
    ELSE IF IsSmall(entry.offset) /\ IsSmall(entry.length)
            /\ ToNat(entry.offset) <= Len(old_data)
            /\ ToNat(entry.length) <= Len(old_data) - ToNat(entry.offset)
    THEN [ok |-> TRUE,
          data |-> SubSeq(old_data, ToNat(entry.offset) + 1,
                          ToNat(entry.offset) + ToNat(entry.length))]
    ELSE [ok |-> FALSE, data |-> <<>>]

\* the masking of save_rpa for version 3.0: both u64 values ^ key as u64
MaskPair(k, offset, len) == <<Xor(offset, AsU64(k)), Xor(len, AsU64(k))>>

\* the (offset, length) pair save_rpa records for a payload written at
\* offset: masked with the key for version 3.0 only
IndexPair(ver, k, offset, len) ==
    IF ver = 30
    THEN MaskPair(k, ToWord(offset, 16), ToWord(len, 16))
    ELSE <<ToWord(offset, 16), ToWord(len, 16)>>

\* what serde_pickle writes for one name of new_indexes: a list holding
\* one tuple of the pair's two integers
IndexValue(pair) == VList(<<VTuple(<<VInt(pair[1]), VInt(pair[2])>>)>>)

\* the filenames in the order of the map's iterator, unsorted
SaveFilesUnsorted(s, order) == order

\* the entries save_rpa emits from the store, as a sequence of filenames
\* in the order in which the map's iterator yields them
SaveFiles(s, order) == sort_by_key(order)

\* the loop of save_rpa over the sorted files: the payload bytes written
\* after HeaderRegion (out), the index pairs and the write cursor; Err at
\* the first entry whose data is not found, with what was written so far
RECURSIVE WriteEntries(_, _, _, _, _, _)
WriteEntries(s, old_data, files, offset, out, new_indexes) ==
    IF files = <<>>
    THEN [ok |-> TRUE, out |-> out, new_indexes |-> new_indexes, offset |-> offset]
    ELSE LET Written(got) ==
                 IF ~got.ok
                 THEN [ok |-> FALSE, out |-> out, new_indexes |-> new_indexes,
                       offset |-> offset]
                 ELSE WriteEntries(s, old_data, Tail(files), offset + Len(got.data),
                          out \o got.data,
                          Append(new_indexes,
                              [k |-> Head(files),
                               v |-> IndexValue(IndexPair(s.version, s.key, offset,
                                                          Len(got.data)))]))
         IN  Written(SavePayload(s.indexes[Head(files)], old_data))

\* a header line that keeps the "RPA-3.0" form for every version from 3.0 on
SaveHeaderFromThree(ver, k, offset) ==
    IF ver >= 30
    THEN Tag30 \o LowerHex(ToWord(offset, 16)) \o <<32>> \o LowerHex(k) \o <<10>>
    ELSE Tag20Out \o LowerHex(ToWord(offset, 16)) \o <<10>>

\* the header line save_rpa writes last, at position 0
SaveHeader(ver, k, offset) ==
    IF ver = 30
    THEN Tag30 \o LowerHex(ToWord(offset, 16)) \o <<32>> \o LowerHex(k) \o <<10>>
    ELSE Tag20Out \o LowerHex(ToWord(offset, 16)) \o <<10>>

\* save_rpa(archive_path = dest) in session state s on disk d, the map
\* iterator yielding the filenames in `order`: the status and the disk it
\* leaves.  The original is read whole before the destination is created
\* (truncated); a failed save leaves the payloads written so far after a
\* header region of zeros (an empty file when none was written).  The
\* bytes serde_pickle writes are not modelled, only the value they hold.
save_rpa(s, d, dest, order) ==
    LET Written(w, header) ==
            ArchiveFile(header \o Zeros(HeaderRegion - Len(header)) \o w.out,
                        Buffer(<<>>, VDict(w.new_indexes)))
        Partial(w) ==
            PlainFile(IF w.out = <<>> THEN <<>> ELSE Zeros(HeaderRegion) \o w.out)
        Done(w) ==
            IF w.ok
            THEN [status |-> "ok",
                  d |-> [d EXCEPT ![dest] =
                            Written(w, SaveHeader(s.version, s.key, w.offset))]]
            ELSE [status |-> "err", d |-> [d EXCEPT ![dest] = Partial(w)]]
    IN  IF s.archive_path = <<>>
        THEN [status |-> "panic", d |-> d]
        ELSE IF ~d[s.archive_path[1]].exists
        THEN [status |-> "err", d |-> d]
        ELSE Done(WriteEntries(s, FileBytes(d[s.archive_path[1]]), SaveFiles(s, order),
                               HeaderRegion, <<>>, <<>>))

\* the orders in which a map's iterator can yield the keys of m
IterOrders(m) ==
    {o \in [1..Cardinality(DOMAIN m) -> DOMAIN m] :
        \A x \in DOMAIN m : \E i \in DOMAIN o : o[i] = x}

(***************************************************************************)
(* The session: the disk it starts on and the host's operations            *)
(***************************************************************************)

\* how many operations a session performs
MaxOps == 4

\* filenames "a.png", "b.png", "bg.png"
NameA  == <<97, 46, 112, 110, 103>>
NameB  == <<98, 46, 112, 110, 103>>
NameBg == <<98, 103, 46, 112, 110, 103>>

Names == {NameA, NameB, NameBg}

\* disk paths "g", "h", "c", "r", "u", "t", "x", "y", "o"
PathG == <<103>>
PathH == <<104>>
PathC == <<99>>
PathR == <<114>>
PathU == <<117>>
PathT == <<116>>
PathX == <<120>>
PathY == <<121>>
PathO == <<111>>

\* folders "d" (with the files "d/a.png" and "d/b.png") and "e" (missing);
\* "b.png" is also a file of the working directory
FolderD == <<100>>
FolderE == <<101>>
PathDA == FolderD \o <<47>> \o NameA
PathDB == FolderD \o <<47>> \o NameB
Folders == {FolderD, FolderE}

Paths == {PathG, PathH, PathC, PathR, PathU, PathT, PathX, PathY, PathO,
          PathDA, PathDB, NameB}

\* the files the host offers to load, to read payloads from, to save to
ArchivePaths == {PathG, PathH, PathC, PathR, PathU, PathT, PathO}
PayloadPaths == {PathX, PathY}
SaveAsPaths  == {PathO}

\* keys 0x12345678 and 0x0F0F00FF ^ 0x00000F0F
Key1 == <<1, 2, 3, 4, 5, 6, 7, 8>>
Key2a == <<0, 15, 0, 15, 0, 0, 15, 15>>
Key2b == <<0, 0, 0, 0, 0, 15, 0, 15>>

\* a header line of tokens separated by one space
RECURSIVE JoinTokens(_)
JoinTokens(tokens) ==
    IF Len(tokens) = 1 THEN tokens[1]
    ELSE tokens[1] \o <<32>> \o JoinTokens(Tail(tokens))

\* an archive file: the header line, a line feed, zeros up to HeaderRegion,
\* the payload bytes, then the index block
MkArchive(line, payload, buf) ==
    ArchiveFile(line \o <<10>> \o Zeros(HeaderRegion - Len(line) - 1) \o payload, buf)

\* the index value of an entry as an archive stores it under key k
Stored(k, offset, len, prefix) ==
    VList(<<VTuple(<<VInt(Xor(ToWord(offset, 16), AsU64(k))),
                     VInt(Xor(ToWord(len, 16), AsU64(k))),
                     VBytes(prefix)>>)>>)

\* bytes in which heuristic recovery under key k finds "bg.png" with
\* offset 0x34 and length 2: the name, a zero byte, 'J' and the masked
\* offset, 'J' and the masked length (little-endian), one more byte
LeBytes(w) == << 16 * w[7] + w[8], 16 * w[5] + w[6], 16 * w[3] + w[4], 16 * w[1] + w[2] >>

HeurRaw(k) ==
    NameBg \o <<0, 74>> \o LeBytes(Xor(ToWord(52, 8), k))
           \o <<74>> \o LeBytes(Xor(ToWord(2, 8), k)) \o <<46>>

Payload0 == <<1, 2, 3, 4, 5>>

\* "RPA-3.0", "RPA-3.2", "RPA-2.0", "RPA-4.0"
TokRpa30 == <<82, 80, 65, 45, 51, 46, 48>>
TokRpa32 == <<82, 80, 65, 45, 51, 46, 50>>
TokRpa20 == <<82, 80, 65, 45, 50, 46, 48>>
TokRpa40 == <<82, 80, 65, 45, 52, 46, 48>>

IndexAt(payload) == LowerHex(ToWord(HeaderRegion + Len(payload), 16))

\* "g": version 3.0, key Key1, a.png and b.png (b.png with a one-byte
\* prefix); its index bytes are also bytes heuristic recovery would accept
FileG ==
    MkArchive(JoinTokens(<<TokRpa30, IndexAt(Payload0), LowerHex(Key1)>>), Payload0,
        Buffer(HeurRaw(Key1),
               VDict(<< [k |-> NameA, v |-> Stored(Key1, 52, 2, <<>>)],
                        [k |-> NameB, v |-> Stored(Key1, 54, 3, <<9>>)] >>)))

\* "h": version 3.2, key Key2a ^ Key2b after one skipped token, a.png
FileH ==
    MkArchive(JoinTokens(<<TokRpa32, IndexAt(Payload0), LowerHex(Key1),
                           LowerHex(Key2a), LowerHex(Key2b)>>), Payload0,
        Buffer(<<>>,
               VDict(<< [k |-> NameA, v |-> Stored(Xor(Key2a, Key2b), 53, 2, <<>>)] >>)))

\* "c": version 2.0, a.png stored under the default key
FileC ==
    MkArchive(JoinTokens(<<TokRpa20, IndexAt(Payload0)>>), Payload0,
        Buffer(<<>>,
               VDict(<< [k |-> NameA, v |-> Stored(DefaultKey, 55, 2, <<>>)] >>)))

\* "r": version 3.0, key Key1, an index that is no pickle: recovered
FileR ==
    MkArchive(JoinTokens(<<TokRpa30, IndexAt(Payload0), LowerHex(Key1)>>), Payload0,
        Buffer(HeurRaw(Key1), VError))

\* "u": an unknown version tag on an otherwise well-formed archive
FileU ==
    MkArchive(JoinTokens(<<TokRpa40, IndexAt(Payload0), LowerHex(Key1)>>), Payload0,
        Buffer(<<>>,
               VDict(<< [k |-> NameA, v |-> Stored(Key1, 52, 2, <<>>)] >>)))

\* "t": version 3.0, key Key1, a damaged index: a.png shorter than its
\* prefix, b.png reaching beyond the end of the file
FileT ==
    MkArchive(JoinTokens(<<TokRpa30, IndexAt(Payload0), LowerHex(Key1)>>), Payload0,
        Buffer(<<>>,
               VDict(<< [k |-> NameA, v |-> Stored(Key1, 52, 1, <<9, 9>>)],
                        [k |-> NameB, v |-> Stored(Key1, 60, 9, <<>>)] >>)))

Disk0 ==
    [p \in Paths |->
        IF p = PathG THEN FileG
        ELSE IF p = PathH THEN FileH
        ELSE IF p = PathC THEN FileC
        ELSE IF p = PathR THEN FileR
        ELSE IF p = PathU THEN FileU
        ELSE IF p = PathT THEN FileT
        ELSE IF p = PathX THEN PlainFile(<<7>>)
        ELSE IF p = PathY THEN PlainFile(<<8, 8>>)
        ELSE IF p = PathDA THEN PlainFile(<<6, 6, 6>>)
        ELSE IF p = PathDB THEN PlainFile(<<5>>)
        ELSE IF p = NameB THEN PlainFile(<<4, 4>>)
        ELSE NoFile]

\* the session state as one record
Session ==
    [version |-> version, key |-> key, indexes |-> indexes,
     archive_path |-> archive_path, modified |-> modified]

\* the last call and what it returned
Res(op, status, path, name, data, offset) ==
    [op |-> op, status |-> status, path |-> path, name |-> name,
     data |-> data, offset |-> offset]

SetSession(s) ==
    /\ version' = s.version
    /\ key' = s.key
    /\ indexes' = s.indexes
    /\ archive_path' = s.archive_path
    /\ modified' = s.modified

\* a panic ends the process; a session performs at most MaxOps operations
Alive == result.status # "panic" /\ ops < MaxOps


Init ==
    /\ version = DefaultVersion
    /\ key = DefaultKey
    /\ indexes = EmptyMap
    /\ archive_path = <<>>
    /\ modified = FALSE
    /\ backup_history = <<>>
    /\ auto_backup = TRUE
    /\ fs = Disk0
    /\ result = Res("new", "ok", <<>>, <<>>, <<>>, <<>>)
    /\ ops = 0

\* load_rpa(path) called by the host
LoadCall(path) ==
    /\ LET Do(r) ==
               /\ SetSession(r.s)
               /\ result' = Res("load", r.status, path, <<>>, <<>>, r.offset)
       IN  Do(load_rpa(Session, fs, path))
    /\ ops' = ops + 1
    /\ UNCHANGED <<backup_history, auto_backup, fs>>

\* File > Open RPA
Load(path) ==
    /\ Alive
    /\ LoadCall(path)

\* File > Close rpa (after the confirmation when the session is modified)
Unload ==
    /\ Alive
    /\ SetSession(unload_rpa)
    /\ backup_history' = <<>>
    /\ auto_backup' = TRUE
    /\ result' = Res("unload", "ok", <<>>, <<>>, <<>>, <<>>)
    /\ ops' = ops + 1
    /\ UNCHANGED fs

\* a preview, an extraction: load_file_data(name)
Read(name) ==
    /\ Alive
    /\ LET Do(r) == result' = Res("read", r.status, <<>>, name, r.data, <<>>)
       IN  Do(load_file_data(Session, fs, name))
    /\ ops' = ops + 1
    /\ UNCHANGED <<session, backup_history, auto_backup, fs>>

\* the Replace button: replace_file(picked path, selected name)
Replace(path, name) ==
    /\ Alive
    /\ LET Do(r) ==
               /\ SetSession(r.s)
               /\ result' = Res("replace", r.status, path, name, <<>>, <<>>)
       IN  Do(replace_file(Session, fs, path, name))
    /\ ops' = ops + 1
    /\ UNCHANGED <<backup_history, auto_backup, fs>>

\* add_file(file_path, archive_name) called by the host
AddCall(path, name) ==
    /\ LET Do(r) ==
               /\ SetSession(r.s)
               /\ backup_history' = r.h
               /\ result' = Res("add", r.status, path, name, <<>>, <<>>)
       IN  Do(add_file(Session, backup_history, auto_backup, fs, path, name))
    /\ ops' = ops + 1
    /\ UNCHANGED <<auto_backup, fs>>

\* the Add dialog: add_file(picked path, typed archive name)
Add(path, name) ==
    /\ Alive
    /\ AddCall(path, name)

\* the Remove button on the selected file
Remove(name) ==
    /\ Alive
    /\ name \in DOMAIN indexes
    /\ SetSession(remove_file(Session, name))
    /\ result' = Res("remove", "ok", <<>>, name, <<>>, <<>>)
    /\ ops' = ops + 1
    /\ UNCHANGED <<backup_history, auto_backup, fs>>

\* the Restore button of a backup
Restore(i) ==
    /\ Alive
    /\ SetSession(restore_backup(Session, backup_history[i]))
    /\ result' = Res("restore", "ok", <<>>, backup_history[i].filename, <<>>, <<>>)
    /\ ops' = ops + 1
    /\ UNCHANGED <<backup_history, auto_backup, fs>>

\* the Batch Replace dialog: batch_replace_from_folder(folder); the count
\* it returns is kept as the data of the result
BatchReplace(folder) ==
    /\ Alive
    /\ \E order \in DirOrders(fs, folder) :
         LET Do(r) ==
                 /\ SetSession(r.s)
                 /\ result' = Res("batch", r.status, folder, <<>>, <<r.count>>, <<>>)
         IN  Do(batch_replace_from_folder(Session, fs, folder, order))
    /\ ops' = ops + 1
    /\ UNCHANGED <<backup_history, auto_backup, fs>>

\* save_rpa(dest) called by the host
SaveTo(dest) ==
    /\ \E order \in IterOrders(indexes) :
         LET Do(r) ==
                 /\ fs' = r.d
                 /\ result' = Res("save", r.status, dest, <<>>, <<>>, <<>>)
         IN  Do(save_rpa(Session, fs, dest, order))
    /\ ops' = ops + 1
    /\ UNCHANGED <<session, backup_history, auto_backup>>

\* File > Save: only with an archive path, onto that path
Save ==
    /\ Alive
    /\ archive_path # <<>>
    /\ SaveTo(archive_path[1])

\* File > Save As...: onto the picked path, whatever the session holds
SaveAs(dest) ==
    /\ Alive
    /\ SaveTo(dest)

Next ==
    \/ \E path \in ArchivePaths : Load(path)
    \/ Unload
    \/ \E name \in Names : Read(name)
    \/ \E path \in PayloadPaths, name \in Names : Replace(path, name)
    \/ \E path \in PayloadPaths, name \in Names : Add(path, name)
    \/ \E name \in Names : Remove(name)
    \/ \E i \in 1..Len(backup_history) : Restore(i)
    \/ \E folder \in Folders : BatchReplace(folder)
    \/ Save
    \/ \E dest \in SaveAsPaths : SaveAs(dest)

Spec == Init /\ [][Next]_vars


(***************************************************************************)
(* Loading one file out of a family of files                               *)
(***************************************************************************)

\* how many key fragments a header of the family carries at most
MaxFrags == 2

\* where the index block of a file of the family starts
IndexPos == 16 * 16

\* a header token and what from_str_radix(text, 16) makes of it
Token(text, ok, w) == [text |-> text, ok |-> ok, w |-> w]

\* "DEADBEEF", "12345678", "ff", "XYZ", "100000000"
Frags ==
    { Token(<<68, 69, 65, 68, 66, 69, 69, 70>>, TRUE, DefaultKey),
      Token(<<49, 50, 51, 52, 53, 54, 55, 56>>, TRUE, Key1),
      Token(<<102, 102>>, TRUE, <<0, 0, 0, 0, 0, 0, 15, 15>>),
      Token(<<88, 89, 90>>, FALSE, Zeros(8)),
      Token(<<49, 48, 48, 48, 48, 48, 48, 48, 48>>, FALSE, Zeros(8)) }

\* "0000000000000100", "+100", "1G"
OffsetTokens ==
    { Token(Zeros(13) \o <<1, 0, 0>>, TRUE, Zeros(13) \o <<1, 0, 0>>),
      Token(<<43, 49, 48, 48>>, TRUE, Zeros(13) \o <<1, 0, 0>>),
      Token(<<49, 71>>, FALSE, Zeros(16)) }

\* the digits of a word as text
Digits(w) == [i \in 1..Len(w) |-> 48 + w[i]]

\* "0000000000000100" as the bytes of a header write it
OffsetText(tok) == IF tok.text[1] \in 0..15 THEN Digits(tok.text) ELSE tok.text

\* first tokens: the three tags, and neighbours of them:
\* "RPA-2", "RPA-2x", "RPA-3.00", "RPA-3.1", "rpa-3.0", "RPA-4.0", "XRPA-3.0"
FirstTokens ==
    { TokRpa32, TokRpa30, TokRpa20, Tag2, Tag2 \o <<120>>, TokRpa30 \o <<48>>,
      <<82, 80, 65, 45, 51, 46, 49>>, <<114, 112, 97, 45, 51, 46, 48>>,
      TokRpa40, <<88>> \o TokRpa30 }

\* a file of the family: the header line, a line feed, zeros up to
\* IndexPos, then the index block
FamilyFile(line, buf) ==
    ArchiveFile(line \o <<10>> \o Zeros(IndexPos - Len(line) - 1), buf)

\* an index block as an archive of key k stores it
GoodIndex(k) ==
    Buffer(<<>>, VDict(<< [k |-> NameA, v |-> Stored(k, 52, 2, <<>>)] >>))

\* the header lines "tag offset fragment ..." of up to MaxFrags fragments
FragSeqs == UNION {[1..n -> Frags] : n \in 1..MaxFrags}

TextOf(toks) == [i \in DOMAIN toks |-> toks[i].text]

HeaderLineOf(tag, off, frags) ==
    JoinTokens(<<tag, OffsetText(off)>> \o TextOf(frags))

\* "tag 0000000000000100 12345678"
LineOf(tag) ==
    JoinTokens(<<tag, Digits(Zeros(13) \o <<1, 0, 0>>), Digits(Key1)>>)

LineKey1 == LineOf(TokRpa30)

\* files whose offset and key fragments vary, under the three tags
HeaderFiles ==
    { FamilyFile(HeaderLineOf(tag, off, frags), GoodIndex(Key1)) :
        tag \in {TokRpa32, TokRpa30, TokRpa20}, off \in OffsetTokens,
        frags \in FragSeqs }

\* files whose first token varies
TagFiles ==
    { FamilyFile(LineOf(tag), GoodIndex(Key1)) : tag \in FirstTokens }

\* the values an index of the family holds for a filename, stored under
\* key Key1: three of the shape the decoder accepts ((0x34, 2, b""),
\* (0x123, 0x10, b"") and (0x36, 3, b"\t")), and neighbours of that shape
IndexValues ==
    { Stored(Key1, 52, 2, <<>>),
      VList(<<VTuple(<<VInt(Zeros(8) \o <<1, 2, 3, 4, 5, 7, 5, 11>>),
                       VInt(Zeros(8) \o <<1, 2, 3, 4, 5, 6, 6, 8>>),
                       VBytes(<<>>)>>)>>),
      Stored(Key1, 54, 3, <<9>>),
      VList(<<>>),
      VList(<<Stored(Key1, 52, 2, <<>>).items[1], Stored(Key1, 54, 3, <<>>).items[1]>>),
      Stored(Key1, 52, 2, <<>>).items[1],
      VList(<<VTuple(<<VInt(ToWord(52, 16)), VInt(ToWord(2, 16))>>)>>),
      VList(<<VTuple(<<VInt(ToWord(52, 16)), VInt(ToWord(2, 16)), VBytes(<<>>),
                       VBytes(<<>>)>>)>>),
      VList(<<VTuple(<<VStr(<<53, 50>>), VInt(ToWord(2, 16)), VBytes(<<>>)>>)>>),
      VList(<<VTuple(<<VInt(ToWord(52, 16)), VInt(ToWord(2, 16)), VStr(<<>>)>>)>>),
      VList(<<VInt(ToWord(52, 16))>>),
      VInt(ToWord(52, 16)) }

\* files whose index is a mapping of two filenames
IndexFiles ==
    { FamilyFile(LineKey1,
          Buffer(HeurRaw(Key1), VDict(<< [k |-> NameA, v |-> va], [k |-> NameB, v |-> vb] >>))) :
        va \in IndexValues, vb \in IndexValues }

\* decompressed bytes in which heuristic recovery has something to find,
\* or nothing: HeurRaw for the file's key, for another key, after
\* "a.png" and a zero byte, "bg.png" alone, nothing
RawBuffers ==
    { HeurRaw(Key1), HeurRaw(DefaultKey), NameA \o <<0>> \o HeurRaw(Key1), NameBg, <<>> }

\* root values that are no mapping: no pickle at all, a list, an integer
RootValues == { VError, VList(<<>>), VInt(ToWord(52, 16)) }

\* files whose index is no mapping
RootFiles ==
    { FamilyFile(LineKey1, Buffer(raw, root)) : raw \in RawBuffers, root \in RootValues }

\* decompressed bytes for heuristic recovery under key k: "bg.png", gap
\* zero bytes, 'J' and the masked word off, zero bytes up to the second
\* 'J' at distance dist from the first, the masked word len, a tail
MarkerBuf(k, gap, off, dist, len, tail) ==
    NameBg \o Zeros(gap) \o <<74>> \o LeBytes(Xor(off, k)) \o Zeros(dist - 5)
           \o <<74>> \o LeBytes(Xor(len, k)) \o tail

\* offsets and lengths at the edges of is_reasonable_entry
MarkerOffsets ==
    { ToWord(50, 8), ToWord(51, 8), ToWord(1500000000, 8), ToWord(1500000001, 8),
      ToWord(1999999999, 8), ToWord(2000000000, 8), <<15, 15, 15, 15, 15, 15, 15, 15>> }

MarkerLengths ==
    { ToWord(0, 8), ToWord(1, 8), ToWord(499999999, 8), ToWord(500000000, 8),
      <<8, 0, 0, 0, 0, 0, 0, 0>> }

\* gaps between the filename and the first marker, distances between the
\* two markers, at the edges of the two search windows
MarkerGaps == {0, 1, 99, 100}
MarkerDists == {5, 14, 15}
MarkerTails == {<<>>, <<46>>}

\* "tag 0000000000000100 00000000"
LineZeroKey == JoinTokens(<<TokRpa30, Digits(Zeros(13) \o <<1, 0, 0>>), Digits(Zeros(8))>>)

\* files whose index is no pickle and whose bytes hold one filename and
\* two markers: the marker values vary, the positions vary, the key of
\* the header varies (for "RPA-2.0" the session's key is the key)
MarkerFiles ==
    { FamilyFile(LineKey1, Buffer(MarkerBuf(Key1, 1, off, 5, len, <<46>>), VError)) :
        off \in MarkerOffsets, len \in MarkerLengths }
    \cup
    { FamilyFile(LineKey1,
          Buffer(MarkerBuf(Key1, gap, ToWord(52, 8), dist, ToWord(2, 8), tail), VError)) :
        gap \in MarkerGaps, dist \in MarkerDists, tail \in MarkerTails }
    \cup
    { FamilyFile(LineZeroKey,
          Buffer(MarkerBuf(k, 1, ToWord(52, 8), 5, ToWord(2, 8), <<46>>), VError)) :
        k \in {Zeros(8), Key1} }
    \cup
    { FamilyFile(LineOf(TokRpa20),
          Buffer(MarkerBuf(k, 1, ToWord(52, 8), 5, ToWord(2, 8), <<46>>), VError)) :
        k \in {DefaultKey, Key1} }

\* the fragments of Frags that are hexadecimal numbers of 32 bits
GoodFrags == {fr \in Frags : fr.ok}

\* "RPA-3.2" files with a skipped token and three key fragments, in every
\* arrangement, the index stored under key 0x12345678
ThreeFragFiles ==
    { FamilyFile(HeaderLineOf(TokRpa32, Token(Zeros(13) \o <<1, 0, 0>>, TRUE,
                                             Zeros(13) \o <<1, 0, 0>>),
                              <<Token(<<52, 50>>, TRUE, Zeros(8))>> \o frs),
                 GoodIndex(Key1)) :
        frs \in [1..3 -> GoodFrags] }

LoadFiles ==
    HeaderFiles \cup TagFiles \cup IndexFiles \cup RootFiles \cup MarkerFiles
        \cup ThreeFragFiles

\* a session on a disk where "g" is a file of the family
InitLoad ==
    /\ version = DefaultVersion
    /\ key = DefaultKey
    /\ indexes = EmptyMap
    /\ archive_path = <<>>
    /\ modified = FALSE
    /\ backup_history = <<>>
    /\ auto_backup = TRUE
    /\ \E f \in LoadFiles : fs = [Disk0 EXCEPT ![PathG] = f]
    /\ result = Res("new", "ok", <<>>, <<>>, <<>>, <<>>)
    /\ ops = 0

NextLoad ==
    \/ \E path \in {PathG, PathH} : Load(path)
    \/ Add(PathX, NameB)

SpecLoad == InitLoad /\ [][NextLoad]_vars


(***************************************************************************)
(* A long session of adds: the backup history fills and turns over         *)
(***************************************************************************)

\* how many operations a session of adds performs
MaxAdds == 13

AliveAdds == result.status # "panic" /\ ops < MaxAdds

\* File > Open RPA on archive "g", in a session without archive
OpenG ==
    /\ AliveAdds
    /\ archive_path = <<>>
    /\ LoadCall(PathG)

\* the Add dialog for a.png, with one of the two payload files
AddOver(path) ==
    /\ AliveAdds
    /\ AddCall(path, NameA)

\* the Clear All button of the backup window
ClearAll ==
    /\ AliveAdds
    /\ backup_history' = <<>>
    /\ result' = Res("clear", "ok", <<>>, <<>>, <<>>, <<>>)
    /\ ops' = ops + 1
    /\ UNCHANGED <<session, auto_backup, fs>>

NextAdds ==
    \/ OpenG
    \/ \E path \in PayloadPaths : AddOver(path)
    \/ ClearAll

SpecAdds == Init /\ [][NextAdds]_vars


(***************************************************************************)
(* Properties of a session                                                 *)
(***************************************************************************)

\* what a read of filename n returns in the current state
ReadOf(n) == load_file_data(Session, fs, n)

\* the filenames the index of an archive file lists
SavedNames(f) == {f.idx[1].val.items[i].k : i \in 1..Len(f.idx[1].val.items)}

\* the length of the payload an entry stands for
PayloadLen(e) == IF e.data # <<>> THEN Len(e.data[1]) ELSE ToNat(e.length)

\* the total payload length of the filenames S of store m
RECURSIVE SumLen(_, _)
SumLen(m, S) ==
    IF S = {} THEN 0
    ELSE LET n == CHOOSE x \in S : TRUE
         IN  PayloadLen(m[n]) + SumLen(m, S \ {n})

\* C1: round trip.  Right after a successful load (no edit made), saving
\* to the new path "o" succeeds and loading the saved file succeeds with a
\* store of the same filenames whose reads return, filename by filename,
\* what the reads of the original return.
C1_RoundTrip ==
    (result.op = "load" /\ result.status = "ok" /\ result.path # PathO) =>
        \A order \in IterOrders(indexes) :
            LET saved == save_rpa(Session, fs, PathO, order)
                again == load_rpa(Session, saved.d, PathO)
            IN  /\ saved.status = "ok"
                /\ again.status = "ok"
                /\ DOMAIN again.s.indexes = DOMAIN indexes
                /\ \A n \in DOMAIN indexes :
                       load_file_data(again.s, saved.d, n) = ReadOf(n)

\* C2: after a successful save, whatever edits preceded it, the index of
\* the file written lists no filename that is marked deleted in the store,
\* and its payload region holds the payloads of the surviving entries
\* only.
C2_DeletedNotSaved ==
    (result.op = "save" /\ result.status = "ok") =>
        LET gone == {n \in DOMAIN indexes : indexes[n].to_delete}
        IN  /\ SavedNames(fs[result.path]) \cap gone = {}
            /\ Len(fs[result.path].pre) =
                   HeaderRegion + SumLen(indexes, DOMAIN indexes \ gone)

\* a successful replace_file leaves an entry whose read returns the bytes
\* of the picked file
C3_Established ==
    (result.op = "replace" /\ result.status = "ok") =>
        ReadOf(result.name) = [status |-> "ok", data |-> FileBytes(fs[result.path])]

\* a step that is no load, no unload and no replace, add or backup restore
\* of filename n keeps the read of an overridden n
C3_Kept ==
    \A n \in DOMAIN indexes :
        ( /\ indexes[n].data # <<>>
          /\ result'.op \notin {"load", "unload"}
          /\ ~(result'.op \in {"replace", "add", "restore"} /\ result'.name = n) )
        => load_file_data(Session', fs', n) = [status |-> "ok", data |-> indexes[n].data[1]]

\* C3 (amended): after a successful replace, a read of that filename
\* returns exactly the replacement bytes, and keeps doing so until the
\* entry is replaced again, overwritten by an add or a backup restore
\* under the same filename, or the archive is reloaded or unloaded.
C3_ReplaceThenRead == []C3_Established /\ [][C3_Kept]_vars

\* C3 as stated: in the state a successful replace leaves, a step that is
\* no load, no unload and no further replace of that filename leaves a
\* read of it returning the replacement bytes.
C3_AsStated ==
    [][ ( /\ result.op = "replace"
          /\ result.status = "ok"
          /\ result'.op \notin {"load", "unload"}
          /\ ~(result'.op = "replace" /\ result'.name = result.name) )
        => load_file_data(Session', fs', result.name)
               = [status |-> "ok", data |-> FileBytes(fs[result.path])] ]_vars

\* a read that returns the override a replace left on an entry of the
\* archive, different from what the archive holds for it
C3_Witness ==
    /\ result.op = "read"
    /\ result.status = "ok"
    /\ result.name \in DOMAIN indexes
    /\ indexes[result.name].data = <<result.data>>
    /\ indexes[result.name].offset # Zeros(16)
    /\ archive_path # <<>>
    /\ ReadEntry(indexes[result.name], fs[archive_path[1]]).data # result.data

\* C4: after every successful load of a version-2.0 archive the key is the
\* default constant 0xDEADBEEF, whatever was loaded before.
C4_DefaultKey ==
    (result.op = "load" /\ result.status = "ok" /\ version = 20) => key = DefaultKey


(***************************************************************************)
(* Properties of the loader                                                *)
(***************************************************************************)

\* the XOR of the words ws
RECURSIVE XorAll(_)
XorAll(ws) == IF ws = <<>> THEN Zeros(8) ELSE Xor(Head(ws), XorAll(Tail(ws)))

\* the tokens a header of the family was written from, file by file
HeaderCases ==
    { [file |-> FamilyFile(HeaderLineOf(tag.text, off, frags), GoodIndex(Key1)),
       version |-> tag.version, off |-> off, frags |-> frags] :
        tag \in { [text |-> TokRpa30, version |-> 30],
                  [text |-> TokRpa32, version |-> 32] },
        off \in OffsetTokens, frags \in FragSeqs }

HeaderCaseOf ==
    [f \in {c.file : c \in HeaderCases} |-> CHOOSE c \in HeaderCases : c.file = f]

\* the fragments the key of a header is folded from: all of them for
\* version 3.0, all but the first for 3.2
KeyFrags(c) == IF c.version = 30 THEN c.frags ELSE Tail(c.frags)

\* what C5 says of the load of a file written from the tokens of case c
HeaderParsed(c) ==
    IF c.off.ok /\ \A i \in DOMAIN KeyFrags(c) : KeyFrags(c)[i].ok
    THEN /\ result.status = "ok"
         /\ version = c.version
         /\ result.offset = c.off.w
         /\ key = XorAll([i \in DOMAIN KeyFrags(c) |-> KeyFrags(c)[i].w])
         /\ archive_path = <<result.path>>
    ELSE result.status = "err"

\* C5: the load of a file whose header line is "t0 t1 t2 ..." takes the
\* index offset from t1 read as hexadecimal and the key from the XOR of
\* the tokens from t2 on (version 3.0) or from t3 on (version 3.2), each
\* read as a 32-bit hexadecimal word; a token that is no such word fails
\* the load.
C5_HeaderParse ==
    (result.op = "load" /\ fs[result.path] \in DOMAIN HeaderCaseOf) =>
        HeaderParsed(HeaderCaseOf[fs[result.path]])

\* the load of "RPA-3.0 0000000000000100 DEADBEEF": version 3.0, key
\* 0xDEADBEEF, index offset 0x100
C5_Witness ==
    /\ result.op = "load"
    /\ result.status = "ok"
    /\ HeaderLine(fs[result.path].pre) =
           <<82, 80, 65, 45, 51, 46, 48, 32,
             48, 48, 48, 48, 48, 48, 48, 48, 48, 48, 48, 48, 48, 49, 48, 48, 32,
             68, 69, 65, 68, 66, 69, 69, 70>>
    /\ version = 30
    /\ key = <<13, 14, 10, 13, 11, 14, 14, 15>>
    /\ result.offset = <<0, 0, 0, 0, 0, 0, 0, 0, 0, 0, 0, 0, 0, 1, 0, 0>>

\* the load of a version-3.2 header whose token t2 is no hexadecimal word
C5_WitnessSkipped ==
    /\ result.op = "load"
    /\ result.status = "ok"
    /\ version = 32
    /\ fs[result.path] \in DOMAIN HeaderCaseOf
    /\ ~HeaderCaseOf[fs[result.path]].frags[1].ok
    /\ key = Key1

\* the first n bytes of the file a load step reads
Head_(f, n) == SubSeq(FileBytes(f), 1, n)

\* C6: a load of a file of 32 bytes or more sets version 3.2 when the file
\* starts with "RPA-3.2 ", 3.0 when it starts with "RPA-3.0 ", 2.0 when it
\* starts with "RPA-2"; with any other start it fails and version, key,
\* store, archive path and modified flag are what they were before.
C6_Classify ==
    [][ ( /\ result'.op = "load"
          /\ fs[result'.path].exists
          /\ Len(FileBytes(fs[result'.path])) >= 32 )
        => IF Head_(fs[result'.path], 8) = TokRpa32 \o <<32>> THEN version' = 32
           ELSE IF Head_(fs[result'.path], 8) = TokRpa30 \o <<32>> THEN version' = 30
           ELSE IF Head_(fs[result'.path], 5) = <<82, 80, 65, 45, 50>> THEN version' = 20
           ELSE result'.status = "err" /\ session' = session ]_vars

\* a failed load of a file that starts with "RPA-3.00 " in a session that
\* holds an edited archive
C6_Witness ==
    /\ result.op = "load"
    /\ result.status = "err"
    /\ Head_(fs[result.path], 9) = <<82, 80, 65, 45, 51, 46, 48, 48, 32>>
    /\ archive_path = <<PathH>>
    /\ version = 32
    /\ modified
    /\ DOMAIN indexes = {NameA, NameB}

\* the shape of an index value the decoder accepts
GoodShape(v) ==
    /\ v.t = "List"
    /\ Len(v.items) = 1
    /\ v.items[1].t = "Tuple"
    /\ Len(v.items[1].items) = 3
    /\ v.items[1].items[1].t = "I64"
    /\ v.items[1].items[2].t = "I64"
    /\ v.items[1].items[3].t = "Bytes"

\* the index block of the file the last call named
IndexOf(path) == fs[path].idx[1]

\* C7: after the load of a file whose index is a mapping, the store holds
\* exactly the filenames whose value is a one-element list of a 3-tuple
\* (integer, integer, bytes), each with the stored offset and length XOR
\* the key, the stored prefix, no override and both flags false; values
\* of another shape are skipped and do not fail the load.
C7_Decode ==
    /\ (result.op = "load" /\ fs[result.path] \in IndexFiles) => result.status = "ok"
    /\ ( /\ result.op = "load"
         /\ result.status = "ok"
         /\ IndexOf(result.path).val.t = "Dict" )
       => LET items == IndexOf(result.path).val.items
          IN  /\ DOMAIN indexes =
                     {items[i].k : i \in {j \in DOMAIN items : GoodShape(items[j].v)}}
              /\ \A i \in DOMAIN items :
                     GoodShape(items[i].v) =>
                         indexes[items[i].k] =
                             [offset |-> Xor(items[i].v.items[1].items[1].w, Zeros(8) \o key),
                              length |-> Xor(items[i].v.items[1].items[2].w, Zeros(8) \o key),
                              prefix |-> items[i].v.items[1].items[3].b,
                              data |-> <<>>, modified |-> FALSE, to_delete |-> FALSE]

\* a load under key 0x12345678 of an index that stores a.png as
\* (0x123 ^ key, 0x10 ^ key, b"") and b.png as a list of a 4-tuple: a.png
\* is (0x123, 0x10), b.png is skipped
C7_Witness ==
    /\ result.op = "load"
    /\ result.status = "ok"
    /\ key = <<1, 2, 3, 4, 5, 6, 7, 8>>
    /\ IndexOf(result.path).val.t = "Dict"
    /\ Len(IndexOf(result.path).val.items) = 2
    /\ GoodShape(IndexOf(result.path).val.items[1].v)
    /\ IndexOf(result.path).val.items[1].v.items[1].items[1].w
           = <<0, 0, 0, 0, 0, 0, 0, 0, 1, 2, 3, 4, 5, 7, 5, 11>>
    /\ IndexOf(result.path).val.items[2].v.t = "List"
    /\ Len(IndexOf(result.path).val.items[2].v.items) = 1
    /\ Len(IndexOf(result.path).val.items[2].v.items[1].items) = 4
    /\ DOMAIN indexes = {NameA}
    /\ indexes[NameA].offset = <<0, 0, 0, 0, 0, 0, 0, 0, 0, 0, 0, 0, 0, 1, 2, 3>>
    /\ indexes[NameA].length = <<0, 0, 0, 0, 0, 0, 0, 0, 0, 0, 0, 0, 0, 0, 1, 0>>

\* the store with the one entry filename -> (offset, length), no prefix
OneEntry(filename, offset, length) ==
    [n \in {filename} |->
        [offset |-> ToWord(offset, 16), length |-> ToWord(length, 16), prefix |-> <<>>,
         data |-> <<>>, modified |-> FALSE, to_delete |-> FALSE]]

\* C8: the load of a file whose index is no mapping succeeds with the
\* store heuristic recovery makes of the decompressed bytes under the key
\* of the header; the load of a file whose index is a mapping leaves no
\* filename in the store that the mapping does not hold.
C8_Fallback ==
    /\ (result.op = "load" /\ fs[result.path] \in RootFiles) =>
           /\ result.status = "ok"
           /\ key = Key1
           /\ indexes = parse_binary_dict(key, IndexOf(result.path).raw)
           /\ IndexOf(result.path).raw = HeurRaw(Key1) => indexes = OneEntry(NameBg, 52, 2)
           /\ IndexOf(result.path).raw = NameA \o <<0>> \o HeurRaw(Key1)
                  => indexes = OneEntry(NameA, 52, 2)
           /\ IndexOf(result.path).raw \in {HeurRaw(DefaultKey), NameBg, <<>>}
                  => indexes = EmptyMap
    /\ ( /\ result.op = "load"
         /\ result.status = "ok"
         /\ IndexOf(result.path).val.t = "Dict" )
       => DOMAIN indexes \subseteq SavedNames(fs[result.path])

\* a load that recovered bg.png from an index that is no pickle
C8_Witness ==
    /\ result.op = "load"
    /\ result.status = "ok"
    /\ IndexOf(result.path).val.t = "Error"
    /\ indexes = OneEntry(NameBg, 52, 2)

\* a load that decoded a mapping whose bytes hold what heuristic recovery
\* would accept
C8_WitnessDecoded ==
    /\ result.op = "load"
    /\ result.status = "ok"
    /\ IndexOf(result.path).val.t = "Dict"
    /\ IndexOf(result.path).raw = HeurRaw(key)
    /\ NameBg \notin DOMAIN indexes

(***************************************************************************)
(* Properties of the accessor and of the rebuilder                         *)
(***************************************************************************)

\* the bytes of the backing file from offset on, n of them
BackingBytes(offset, n) ==
    SubSeq(FileBytes(fs[archive_path[1]]), ToNat(offset) + 1, ToNat(offset) + n)

\* C9: a read of an entry with an override returns the override; a read
\* of an entry without one returns the prefix and then length - prefix
\* length bytes of the backing file from the offset on, length bytes in
\* all, and succeeds when the file holds them.
C9_Read ==
    (result.op = "read" /\ result.name \in DOMAIN indexes) =>
        LET e == indexes[result.name]
        IN  IF e.data # <<>>
            THEN result.status = "ok" /\ result.data = e.data[1]
            ELSE /\ result.status = "ok" =>
                        /\ result.data =
                               e.prefix \o BackingBytes(e.offset, ToNat(e.length) - Len(e.prefix))
                        /\ Len(result.data) = ToNat(e.length)
                 /\ ( /\ archive_path # <<>>
                      /\ fs[archive_path[1]].exists
                      /\ IsSmall(e.offset) /\ IsSmall(e.length)
                      /\ ToNat(e.length) >= Len(e.prefix)
                      /\ ToNat(e.offset) + ToNat(e.length) - Len(e.prefix)
                             <= Len(FileBytes(fs[archive_path[1]])) )
                    => result.status = "ok"

\* a read of b.png of archive "g": the prefix 9, then the two bytes 3, 4
\* at offset 0x36
C9_Witness ==
    /\ result.op = "read"
    /\ result.status = "ok"
    /\ result.name = NameB
    /\ indexes[NameB].data = <<>>
    /\ indexes[NameB].prefix = <<9>>
    /\ result.data = <<9, 3, 4>>

\* a read of an override in a session without backing file
C9_WitnessOverride ==
    /\ result.op = "read"
    /\ result.status = "ok"
    /\ archive_path = <<>>
    /\ indexes[result.name].data = <<result.data>>

\* the words save_rpa recorded for item i of the index of file f, unmasked
Recorded(f, i) ==
    LET t == f.idx[1].val.items[i].v.items[1].items
    IN  IF version = 30
        THEN [offset |-> Xor(t[1].w, Zeros(8) \o key), length |-> Xor(t[2].w, Zeros(8) \o key)]
        ELSE [offset |-> t[1].w, length |-> t[2].w]

\* the filenames of S below filename n in the lexicographic order
Below(S, n) == {m \in S : LexLess(m, n)}

\* C10: in the file a successful save wrote, each recorded offset is 0x34
\* plus the payload lengths of the saved filenames lexicographically
\* below, each recorded length is the payload's length, the extents are
\* pairwise disjoint, an override lies at its extent, and the index
\* offset of the header is 0x34 plus all payload lengths, whatever the
\* order in which the map yields the filenames.
C10_Layout ==
    (result.op = "save" /\ result.status = "ok") =>
        LET f == fs[result.path]
            items == f.idx[1].val.items
            saved == SavedNames(f)
        IN  /\ saved \subseteq DOMAIN indexes
            /\ Cardinality(saved) = Len(items)
            /\ \A i \in DOMAIN items :
                   /\ Recorded(f, i).offset =
                          ToWord(HeaderRegion + SumLen(indexes, Below(saved, items[i].k)), 16)
                   /\ Recorded(f, i).length = ToWord(PayloadLen(indexes[items[i].k]), 16)
                   /\ indexes[items[i].k].data # <<>> =>
                          SubSeq(f.pre, ToNat(Recorded(f, i).offset) + 1,
                                 ToNat(Recorded(f, i).offset) + ToNat(Recorded(f, i).length))
                              = indexes[items[i].k].data[1]
            /\ \A i, j \in DOMAIN items :
                   i # j =>
                       \/ ToNat(Recorded(f, i).offset) + ToNat(Recorded(f, i).length)
                              <= ToNat(Recorded(f, j).offset)
                       \/ ToNat(Recorded(f, j).offset) + ToNat(Recorded(f, j).length)
                              <= ToNat(Recorded(f, i).offset)
            /\ Len(f.pre) = HeaderRegion + SumLen(indexes, saved)
            /\ SplitWhitespace(HeaderLine(f.pre))[2] =
                   LowerHex(ToWord(HeaderRegion + SumLen(indexes, saved), 16))

\* a successful save of a store of three filenames, one of them an
\* override
C10_Witness ==
    /\ result.op = "save"
    /\ result.status = "ok"
    /\ DOMAIN indexes = {NameA, NameB, NameBg}
    /\ \E n \in DOMAIN indexes : indexes[n].data # <<>>
    /\ SavedNames(fs[result.path]) = DOMAIN indexes


(***************************************************************************)
(* Properties of the header and of the index a save writes                 *)
(***************************************************************************)

\* the lower-case hexadecimal text of a word
HexText(w) == [i \in 1..Len(w) |-> IF w[i] < 10 THEN 48 + w[i] ELSE 87 + w[i]]

\* the two words the index of file f holds for its item i, as stored
StoredPair(f, i) ==
    LET t == f.idx[1].val.items[i].v.items[1].items
    IN  <<t[1].w, t[2].w>>

\* the offset and the length of the payload written for item i of the
\* index of file f
TruePair(f, i) ==
    LET items == f.idx[1].val.items
    IN  <<ToWord(HeaderRegion + SumLen(indexes, Below(SavedNames(f), items[i].k)), 16),
          ToWord(PayloadLen(indexes[items[i].k]), 16)>>

\* C11: a successful save of a session of version 3.0 writes the header
\* "RPA-3.0 <16 hex digits of the index offset> <8 hex digits of the key>"
\* and records each offset and length xor the key; a save of a session of
\* any other version (2.0, 3.2) writes "RPA-2.0 <16 hex digits>" without
\* key and records the offsets and lengths as they are.
C11_HeaderByVersion ==
    (result.op = "save" /\ result.status = "ok") =>
        LET f == fs[result.path]
            line == HeaderLine(f.pre)
            off == HexText(ToWord(Len(f.pre), 16))
            mask == Zeros(8) \o key
        IN  /\ version \in {20, 30, 32}
            /\ version = 30 =>
                   /\ line = <<82, 80, 65, 45, 51, 46, 48, 32>> \o off \o <<32>> \o HexText(key)
                   /\ \A i \in DOMAIN f.idx[1].val.items :
                          /\ StoredPair(f, i)[1] = Xor(TruePair(f, i)[1], mask)
                          /\ StoredPair(f, i)[2] = Xor(TruePair(f, i)[2], mask)
                          /\ StoredPair(f, i) # TruePair(f, i)
            /\ version # 30 =>
                   /\ line = <<82, 80, 65, 45, 50, 46, 48, 32>> \o off
                   /\ \A i \in DOMAIN f.idx[1].val.items :
                          StoredPair(f, i) = TruePair(f, i)

\* archive "h" (version 3.2) saved: the header is
\* "RPA-2.0 0000000000000036" and a.png is recorded as (0x34, 2)
C11_Witness ==
    /\ result.op = "save"
    /\ result.status = "ok"
    /\ version = 32
    /\ HeaderLine(fs[result.path].pre) =
           <<82, 80, 65, 45, 50, 46, 48, 32>> \o Digits(Zeros(14) \o <<3, 6>>)
    /\ StoredPair(fs[result.path], 1) = <<ToWord(52, 16), ToWord(2, 16)>>

\* archive "g" (version 3.0, key 0x12345678) saved: the header is
\* "RPA-3.0 0000000000000039 12345678" and a.png is recorded masked
C11_WitnessMasked ==
    /\ result.op = "save"
    /\ result.status = "ok"
    /\ version = 30
    /\ HeaderLine(fs[result.path].pre) =
           <<82, 80, 65, 45, 51, 46, 48, 32>> \o Digits(Zeros(14) \o <<3, 9>>)
               \o <<32>> \o Digits(Key1)
    /\ StoredPair(fs[result.path], 1) =
           <<Zeros(8) \o <<1, 2, 3, 4, 5, 6, 4, 12>>, Zeros(8) \o <<1, 2, 3, 4, 5, 6, 7, 10>>>>

\* archive "c" (version 2.0) saved with an "RPA-2.0" header
C11_WitnessTwo ==
    /\ result.op = "save"
    /\ result.status = "ok"
    /\ version = 20
    /\ Take(HeaderLine(fs[result.path].pre), 8) = <<82, 80, 65, 45, 50, 46, 48, 32>>

\* entry e has its extent [offset, offset + length) inside a file of these bytes
Inside(e, bytes) ==
    /\ IsSmall(e.offset) /\ IsSmall(e.length)
    /\ ToNat(e.offset) + ToNat(e.length) <= Len(bytes)

\* a store entry without override whose extent is not inside the backing file
SomeEntryOutside ==
    /\ archive_path # <<>>
    /\ fs[archive_path[1]].exists
    /\ \E n \in DOMAIN indexes :
           /\ indexes[n].data = <<>>
           /\ ~Inside(indexes[n], FileBytes(fs[archive_path[1]]))

\* file f carries no header line and no index: it is empty, or a header
\* region of zeros and payload bytes; get_version rejects it
NoHeaderWritten(f) ==
    /\ f.exists
    /\ f.idx = <<>>
    /\ \A i \in 1..Len(f.pre) : i <= 52 => f.pre[i] = 0
    /\ Take(f.pre, 4) # <<82, 80, 65, 45>>
    /\ get_version(f) = 0

\* C12: a save in a session where some entry without override has an
\* extent that is not inside the original file returns an error, and the
\* destination holds no header line afterwards.
C12_SaveOutsideFails ==
    [][ (result'.op = "save" /\ ops' = ops + 1 /\ SomeEntryOutside) =>
            /\ result'.status = "err"
            /\ NoHeaderWritten(fs'[result'.path]) ]_vars

\* Save As "o" of archive "t" failed at b.png (offset 60, length 9, beyond
\* the end of the file) after the one byte of a.png was written: "o" is a
\* header region of zeros and that byte
C12_Witness ==
    /\ result.op = "save"
    /\ result.status = "err"
    /\ result.path = PathO
    /\ archive_path = <<PathT>>
    /\ NameB \in DOMAIN indexes
    /\ indexes[NameB].data = <<>>
    /\ indexes[NameB].offset = ToWord(60, 16)
    /\ ~Inside(indexes[NameB], FileBytes(fs[PathT]))
    /\ fs[PathO] = PlainFile(Zeros(52) \o <<1>>)

\* Save onto the backing archive itself failed: the archive is now empty
C12_WitnessOntoSource ==
    /\ result.op = "save"
    /\ result.status = "err"
    /\ archive_path = <<result.path>>
    /\ indexes # EmptyMap
    /\ fs[result.path] = PlainFile(<<>>)

\* C13: whenever save has run, the session has a backing archive path and
\* a non-empty store (save leaves the session as it found it).
C13_SaveHasArchive ==
    result.op = "save" => (archive_path # <<>> /\ indexes # EmptyMap)

(***************************************************************************)
(* Properties of the store's entries                                       *)
(***************************************************************************)

\* C14: in every state, each store entry without override has its extent
\* inside the backing archive file and a length of at least its prefix's
\* length.
C14_ExtentsInFile ==
    \A n \in DOMAIN indexes :
        indexes[n].data = <<>> =>
            /\ archive_path # <<>>
            /\ Inside(indexes[n], FileBytes(fs[archive_path[1]]))
            /\ ToNat(indexes[n].length) >= Len(indexes[n].prefix)

(***************************************************************************)
(* Properties of heuristic recovery                                        *)
(***************************************************************************)

\* the last load succeeded on a file whose index is no mapping: its
\* store is what heuristic recovery made of the decompressed bytes
Recovered ==
    /\ result.op = "load"
    /\ result.status = "ok"
    /\ IndexOf(result.path).val.t # "Dict"

\* word w (a u64 below 2^32) is the value of a marker of the bytes raw at
\* position p, xor the key: a 'J' and the four bytes of w ^ key
MarkerAt(raw, p, w) ==
    /\ p + 5 <= Len(raw)
    /\ raw[p + 1] = 74
    /\ SubSeq(w, 1, 8) = Zeros(8)
    /\ SubSeq(raw, p + 2, p + 5) = LeBytes(Xor(SubSeq(w, 9, 16), key))

\* the sanity filter on two numbers below 2^31; the last conjunct is
\* offset + length < 2,000,000,000, written so that no sum passes 2^31
Sane(offset, length) ==
    /\ 50 < offset /\ offset < 2000000000
    /\ 0 < length /\ length < 500000000
    /\ length < 2000000000 - offset

\* C15: every entry of a store made by heuristic recovery has
\* 50 < offset < 2,000,000,000, 0 < length < 500,000,000 and
\* offset + length < 2,000,000,000, its offset and its length are the
\* values of two 'J' markers of the buffer xor the key, its prefix is
\* empty, it has no override and both flags are false; a buffer with one
\* marker pair within the filter yields exactly that pair.
C15_Reasonable ==
    Recovered =>
        LET raw == IndexOf(result.path).raw
        IN  /\ \A n \in DOMAIN indexes :
                   /\ IsSmall(indexes[n].offset) /\ IsSmall(indexes[n].length)
                   /\ Sane(ToNat(indexes[n].offset), ToNat(indexes[n].length))
                   /\ \E p \in 0..Len(raw) : MarkerAt(raw, p, indexes[n].offset)
                   /\ \E q \in 0..Len(raw) : MarkerAt(raw, q, indexes[n].length)
                   /\ indexes[n].prefix = <<>>
                   /\ indexes[n].data = <<>>
                   /\ ~indexes[n].modified
                   /\ ~indexes[n].to_delete
            /\ \A off \in MarkerOffsets, len \in MarkerLengths :
                   ( /\ key = Key1
                     /\ raw = MarkerBuf(Key1, 1, off, 5, len, <<46>>)
                     /\ IsSmall(off) /\ IsSmall(len)
                     /\ Sane(ToNat(off), ToNat(len)) )
                   => indexes = OneEntry(NameBg, ToNat(off), ToNat(len))

\* bg.png recovered with offset 1,500,000,000 and length 499,999,999,
\* the sum one below the limit
C15_Witness ==
    /\ Recovered
    /\ key = Key1
    /\ indexes = OneEntry(NameBg, 1500000000, 499999999)

\* nothing recovered from markers that hold offset 2,000,000,000
C15_WitnessRejected ==
    /\ Recovered
    /\ \E len \in MarkerLengths :
           IndexOf(result.path).raw =
               MarkerBuf(Key1, 1, ToWord(2000000000, 8), 5, len, <<46>>)
    /\ indexes = EmptyMap

\* bg.png recovered under key 0 and under the default key of a session
\* that loads an "RPA-2.0" file
C15_WitnessKeys ==
    /\ Recovered
    /\ key \in {Zeros(8), DefaultKey}
    /\ indexes = OneEntry(NameBg, 52, 2)

\* the bytes raw hold the filename n and, with the first 'J' among the
\* 100 bytes after its end, a 'J' with four bytes and a second 'J' with
\* four bytes 5 to 14 bytes after the first
HasMarkerPair(raw, n) ==
    \E s \in 0..(Len(raw) - Len(n)) :
        /\ SubSeq(raw, s + 1, s + Len(n)) = n
        /\ \E p \in (s + Len(n))..(s + Len(n) + 99) :
               /\ p + 5 <= Len(raw)
               /\ raw[p + 1] = 74
               /\ \E q \in (p + 5)..(p + 14) :
                      /\ q + 5 <= Len(raw)
                      /\ raw[q + 1] = 74

\* C16: heuristic recovery records an entry for a filename only if the
\* buffer holds, starting within the 100 bytes after the filename's end,
\* a 'J' marker with a 4-byte value followed by a second 'J' marker with
\* a 4-byte value; "bg.png" without such a pair yields no entry.  For
\* "bg.png" followed by one pair of acceptable values, the entry is
\* recorded exactly when the first marker is 1 to 99 bytes after the
\* filename's end, the second 5 to 14 bytes after the first, and the
\* buffer holds more than 10 bytes from the first marker on.
C16_MarkerPair ==
    Recovered =>
        LET raw == IndexOf(result.path).raw
        IN  /\ \A n \in DOMAIN indexes : HasMarkerPair(raw, n)
            /\ ~HasMarkerPair(raw, NameBg) => NameBg \notin DOMAIN indexes
            /\ \A gap \in MarkerGaps, dist \in MarkerDists, tail \in MarkerTails :
                   (key = Key1 /\ raw = MarkerBuf(Key1, gap, ToWord(52, 8), dist, ToWord(2, 8), tail))
                   => indexes =
                          IF gap >= 1 /\ gap <= 99 /\ dist <= 14 /\ dist + Len(tail) > 5
                          THEN OneEntry(NameBg, 52, 2)
                          ELSE EmptyMap

\* bg.png recorded from a first marker 99 bytes after the filename's end
\* and a second marker 14 bytes after the first
C16_Witness ==
    /\ Recovered
    /\ IndexOf(result.path).raw = MarkerBuf(Key1, 99, ToWord(52, 8), 14, ToWord(2, 8), <<>>)
    /\ indexes = OneEntry(NameBg, 52, 2)

\* nothing recorded for "bg.png" alone, nor for a first marker 100 bytes
\* after the filename's end
C16_WitnessAlone ==
    /\ Recovered
    /\ IndexOf(result.path).raw = NameBg
    /\ indexes = EmptyMap

C16_WitnessBeyond ==
    /\ Recovered
    /\ IndexOf(result.path).raw = MarkerBuf(Key1, 100, ToWord(52, 8), 5, ToWord(2, 8), <<46>>)
    /\ ~HasMarkerPair(IndexOf(result.path).raw, NameBg)
    /\ indexes = EmptyMap

(***************************************************************************)
(* Properties of reads, loads and unloads                                  *)
(***************************************************************************)

\* the bytes that remain of entry e after its prefix cannot all be read
\* from a file of these bytes: there are some, and the file ends before
\* the last of them
CannotRead(e, bytes) ==
    \/ ~IsSmall(e.length)
    \/ /\ ToNat(e.length) > Len(e.prefix)
       /\ \/ ~IsSmall(e.offset)
          \/ ToNat(e.offset) + ToNat(e.length) - Len(e.prefix) > Len(bytes)

\* the outcome of the last read, which left session and disk as they were
C17_Outcome ==
    result.op = "read" =>
        /\ result.name \notin DOMAIN indexes => result.status = "err"
        /\ ( /\ result.name \in DOMAIN indexes
             /\ indexes[result.name].data = <<>>
             /\ archive_path = <<>> )
           => result.status = "err"
        /\ ( /\ result.name \in DOMAIN indexes
             /\ indexes[result.name].data = <<>>
             /\ archive_path # <<>>
             /\ \/ ~fs[archive_path[1]].exists
                \/ CannotRead(indexes[result.name], FileBytes(fs[archive_path[1]])) )
           => result.status = "err"
        /\ result.status = "err" => result.data = <<>>

\* a read changes neither the session nor the backups nor the disk
C17_Unchanged ==
    (result'.op = "read" /\ ops' = ops + 1) =>
        UNCHANGED <<session, backup_history, auto_backup, fs>>

\* C17: a read of a filename that is not in the store, of an entry
\* without override in a session without archive path, or of an entry
\* whose remaining bytes the backing file does not hold in full, yields an
\* error and no payload; the read leaves the session state unchanged.
C17_ReadErrors == []C17_Outcome /\ [][C17_Unchanged]_vars

\* the read of b.png of archive "t" (offset 60, length 9 in a file of 63
\* bytes) failed
C17_Witness ==
    /\ result.op = "read"
    /\ result.status = "err"
    /\ result.name = NameB
    /\ NameB \in DOMAIN indexes
    /\ archive_path # <<>>
    /\ indexes[NameB].data = <<>>
    /\ indexes[NameB].offset = ToWord(60, 16)
    /\ indexes[NameB].length = ToWord(9, 16)
    /\ Len(FileBytes(fs[archive_path[1]])) = 57 + BlobLen

\* the read of a filename the store does not hold failed, in a session
\* that holds other filenames
C17_WitnessAbsent ==
    /\ result.op = "read"
    /\ result.status = "err"
    /\ result.name \notin DOMAIN indexes
    /\ indexes # EmptyMap

\* the store after the last call, a successful load: what the loaded file
\* holds and nothing else.  For an index that is a mapping, the filenames
\* of the well-shaped values with their stored words xor the key and
\* their stored prefix; for another index, filenames and marker values
\* of its bytes.  No entry is an override or flagged, the session is not
\* modified and its archive path is the loaded path.
C18_AfterLoad ==
    (result.op = "load" /\ result.status = "ok") =>
        LET items == IndexOf(result.path).val.items
            raw == IndexOf(result.path).raw
        IN  /\ modified = FALSE
            /\ archive_path = <<result.path>>
            /\ \A n \in DOMAIN indexes :
                   /\ indexes[n].data = <<>>
                   /\ ~indexes[n].modified
                   /\ ~indexes[n].to_delete
            /\ IndexOf(result.path).val.t = "Dict" =>
                   /\ DOMAIN indexes =
                          {items[i].k : i \in {j \in DOMAIN items : GoodShape(items[j].v)}}
                   /\ \A i \in DOMAIN items :
                          GoodShape(items[i].v) =>
                              /\ indexes[items[i].k].offset =
                                     Xor(items[i].v.items[1].items[1].w, Zeros(8) \o key)
                              /\ indexes[items[i].k].length =
                                     Xor(items[i].v.items[1].items[2].w, Zeros(8) \o key)
                              /\ indexes[items[i].k].prefix = items[i].v.items[1].items[3].b
            /\ IndexOf(result.path).val.t # "Dict" =>
                   \A n \in DOMAIN indexes :
                       /\ HasMarkerPair(raw, n)
                       /\ \E p \in 0..Len(raw) : MarkerAt(raw, p, indexes[n].offset)
                       /\ \E q \in 0..Len(raw) : MarkerAt(raw, q, indexes[n].length)
                       /\ indexes[n].prefix = <<>>

\* the session after the last call, an unload: version 3.2, key
\* 0xDEADBEEF, an empty store, no archive path, not modified
C18_AfterUnload ==
    result.op = "unload" =>
        /\ indexes = EmptyMap
        /\ archive_path = <<>>
        /\ version = 32
        /\ key = <<13, 14, 10, 13, 11, 14, 14, 15>>
        /\ modified = FALSE

C18_AfterCall == C18_AfterLoad /\ C18_AfterUnload

\* the store changes only in a successful load, an unload, or an edit
\* (replace, add, remove, restore)
C18_OnlyEdits ==
    indexes' # indexes =>
        \/ result'.op = "load" /\ result'.status = "ok"
        \/ result'.op \in {"unload", "replace", "add", "remove", "restore", "batch"}

\* C18: after a successful load the store holds exactly the entries
\* decoded from the loaded file, none of them an override or flagged, and
\* the session is not modified; after an unload the store is empty, the
\* archive path unset, version and key at their defaults; in between the
\* store changes only through the edit operations.
C18_Wholesale == []C18_AfterCall /\ [][C18_OnlyEdits]_vars

\* archive "h" loaded in a session that had overwritten an entry before
\* (a backup of it is left): the store is a.png of "h", without b.png
\* and without override
C18_Witness ==
    /\ result.op = "load"
    /\ result.status = "ok"
    /\ result.path = PathH
    /\ backup_history # <<>>
    /\ DOMAIN indexes = {NameA}
    /\ indexes[NameA].data = <<>>
    /\ indexes[NameA].offset = ToWord(53, 16)

\* an unload of a session that had loaded an archive and saved it as "o"
C18_WitnessUnload ==
    /\ result.op = "unload"
    /\ fs[PathO].exists
    /\ indexes = EmptyMap
    /\ archive_path = <<>>

(***************************************************************************)
(* Properties of the backup history                                        *)
(***************************************************************************)

\* C19: an add or a replace that overwrites an existing entry whose
\* payload can be read leaves, with auto-backup enabled, a backup of that
\* filename and that payload as the newest of the history; with
\* auto-backup disabled, or for a new name, the history stays as it is.
C19_BackupOnOverwrite ==
    [][ (result'.op \in {"add", "replace"} /\ result'.status = "ok" /\ ops' = ops + 1) =>
            IF result'.name \in DOMAIN indexes /\ auto_backup
            THEN ReadOf(result'.name).status = "ok" =>
                     /\ backup_history' # <<>>
                     /\ backup_history'[Len(backup_history')] =
                            [filename |-> result'.name, data |-> ReadOf(result'.name).data]
                     /\ Len(backup_history) < 10 =>
                            SubSeq(backup_history', 1, Len(backup_history)) = backup_history
            ELSE backup_history' = backup_history ]_vars

\* an add that overwrites an entry whose payload can be read appends a
\* backup of it at the end: to a history of 10 after dropping its first
\* entry, the other nine moving up in their order; to a shorter history
\* without dropping any.  No other add and no load changes the history.
C20_Appended ==
    /\ (result'.op = "add" /\ ops' = ops + 1) =>
           IF /\ result'.status = "ok"
              /\ auto_backup
              /\ result'.name \in DOMAIN indexes
              /\ ReadOf(result'.name).status = "ok"
           THEN LET b == [filename |-> result'.name, data |-> ReadOf(result'.name).data]
                IN  IF Len(backup_history) = 10
                    THEN backup_history' = SubSeq(backup_history, 2, 10) \o <<b>>
                    ELSE backup_history' = backup_history \o <<b>>
           ELSE backup_history' = backup_history
    /\ result'.op = "load" => backup_history' = backup_history

C20_AtMostTen == Len(backup_history) <= 10

\* C20: the backup history never holds more than 10 entries; a backup
\* appended to a history of 10 evicts the oldest entry and the others
\* keep their order.
C20_Ring == []C20_AtMostTen /\ [][C20_Appended]_vars

\* after the load and eleven adds over a.png the history holds the ten
\* newest backups: the oldest, of the archive's own payload 1, 2, is gone
C20_Witness ==
    /\ result.op = "add"
    /\ ops = 12
    /\ Len(backup_history) = 10
    /\ \A i \in 1..10 : backup_history[i].data \in {<<7>>, <<8, 8>>}
    /\ backup_history[1].data # backup_history[2].data

(***************************************************************************)
(* Properties of batch replace                                             *)
(***************************************************************************)

\* the path of the file named n in a folder
InFolder(folder, n) == folder \o <<47>> \o n

\* the filenames of the store that are names of regular files of the folder
Matching(folder) ==
    {n \in DOMAIN indexes :
        InFolder(folder, n) \in DOMAIN fs /\ fs[InFolder(folder, n)].exists}

\* C21: a batch replace from a folder gives every store entry whose name
\* is the name of a regular file of the folder that file's bytes as its
\* payload, returns the number of these entries, and leaves the other
\* entries as they were.
C21_BatchReplace ==
    [][ (result'.op = "batch" /\ result'.status = "ok" /\ ops' = ops + 1) =>
            /\ DOMAIN indexes' = DOMAIN indexes
            /\ \A n \in Matching(result'.path) :
                   indexes'[n].data = <<FileBytes(fs[InFolder(result'.path, n)])>>
            /\ \A n \in DOMAIN indexes \ Matching(result'.path) :
                   indexes'[n] = indexes[n]
            /\ result'.data = <<Cardinality(Matching(result'.path))>> ]_vars

(***************************************************************************)
(* Algebraic properties of the key and of the masking                      *)
(***************************************************************************)

\* the permutations of 1..n
Perms(n) == {p \in [1..n -> 1..n] : \A i, j \in 1..n : p[i] = p[j] => i = j}

\* the tokens of the header line of file f
PartsOf(f) == SplitWhitespace(HeaderLine(FileBytes(f)))

\* file f with the key fragments of its "RPA-3.2" header line (the tokens
\* after the third) rearranged by permutation p
Rearranged(f, p) ==
    LET parts == PartsOf(f)
        frags == SubSeq(parts, 4, Len(parts))
    IN  FamilyFile(JoinTokens(SubSeq(parts, 1, 3) \o [i \in 1..Len(frags) |-> frags[p[i]]]),
                   f.idx[1])

\* C22: the key a successful load derived from an "RPA-3.2" header is the
\* key derived from the header with the same key fragments in any other
\* order, whatever key the session had before.
C22_KeyPermutation ==
    (result.op = "load" /\ result.status = "ok" /\ version = 32) =>
        LET f == fs[result.path]
        IN  \A p \in Perms(Len(PartsOf(f)) - 3) :
                \A k \in {DefaultKey, Key1} :
                    /\ ParseHeader(32, k, Rearranged(f, p)).status = "ok"
                    /\ ParseHeader(32, k, Rearranged(f, p)).key = key

\* a load of "RPA-3.2 ... 42 DEADBEEF ff 12345678" (in some order of the
\* three fragments): the key is 0xCC99E868
C22_Witness ==
    /\ result.op = "load"
    /\ result.status = "ok"
    /\ version = 32
    /\ Len(PartsOf(fs[result.path])) = 6
    /\ {PartsOf(fs[result.path])[i] : i \in 4..6} = {fr.text : fr \in GoodFrags}
    /\ key = <<12, 12, 9, 9, 14, 8, 6, 8>>

\* keys at the edges of 32 bits, besides the key of the session
EdgeKeys == {Zeros(8), <<15, 15, 15, 15, 15, 15, 15, 15>>, <<8, 0, 0, 0, 0, 0, 0, 0>>}

\* the pair save_rpa would record under key k for the entry the decoder
\* builds under key k from a stored tuple
Remasked(k, tuple) ==
    MaskPair(k, DecodeEntry(k, tuple).offset, DecodeEntry(k, tuple).length)

\* C23: for every stored (offset, length) pair of a loaded index and the
\* key of the session (and the keys 0, 0xFFFFFFFF, 0x80000000), masking
\* the decoded entry again as save does gives back the stored pair; the
\* entry in the store is the one that masks back to the stored pair.
C23_Involution ==
    ( /\ result.op = "load"
      /\ result.status = "ok"
      /\ IndexOf(result.path).val.t = "Dict" )
    => LET items == IndexOf(result.path).val.items
       IN  \A i \in DOMAIN items :
               GoodShape(items[i].v) =>
                   LET tuple == items[i].v.items[1].items
                   IN  /\ MaskPair(key, indexes[items[i].k].offset,
                                   indexes[items[i].k].length)
                              = <<tuple[1].w, tuple[2].w>>
                       /\ \A k \in EdgeKeys \cup {key} :
                              Remasked(k, tuple) = <<tuple[1].w, tuple[2].w>>

\* a load under key 0xDEADBEEF of an index that stores a.png as
\* (52 ^ 0x12345678, 2 ^ 0x12345678): the entry is neither the stored pair
\* nor (52, 2), and masks back to the stored pair
C23_Witness ==
    /\ result.op = "load"
    /\ result.status = "ok"
    /\ key = <<13, 14, 10, 13, 11, 14, 14, 15>>
    /\ IndexOf(result.path).val.t = "Dict"
    /\ NameA \in DOMAIN indexes
    /\ GoodShape(IndexOf(result.path).val.items[1].v)
    /\ IndexOf(result.path).val.items[1].v.items[1].items[1].w
           = Xor(ToWord(52, 16), AsU64(Key1))
    /\ indexes[NameA].offset = Xor(Xor(ToWord(52, 16), AsU64(Key1)), AsU64(key))
    /\ indexes[NameA].offset # ToWord(52, 16)

(***************************************************************************)
(* Properties of a session after a save                                    *)
(***************************************************************************)

\* the session the step leaves
SessionAfter ==
    [version |-> version', key |-> key', indexes |-> indexes',
     archive_path |-> archive_path', modified |-> modified']

\* the step is a successful File > Save onto the backing archive
SavedOntoBacking ==
    /\ result'.op = "save"
    /\ result'.status = "ok"
    /\ ops' = ops + 1
    /\ archive_path # <<>>
    /\ result'.path = archive_path[1]

\* the payloads a save of session s on disk d would write, by filename
PayloadsOf(s, d) ==
    [n \in DOMAIN s.indexes |->
        SavePayload(s.indexes[n], FileBytes(d[s.archive_path[1]]))]

\* C24: a successful save onto the backing archive leaves every entry
\* without an override readable with the bytes it had before the save,
\* and a second save would write the payloads the first one wrote.
C24_SaveKeepsEntries ==
    [][ SavedOntoBacking =>
            /\ \A n \in DOMAIN indexes :
                   (indexes[n].data = <<>> /\ ReadOf(n).status = "ok") =>
                       load_file_data(SessionAfter, fs', n) = ReadOf(n)
            /\ PayloadsOf(SessionAfter, fs') = PayloadsOf(Session, fs) ]_vars

\* C25: on a successful save, the payload written for each entry without
\* an override, a stored prefix included, is the payload the accessor
\* returns for that filename in the session state being saved.
C25_SavePayloadIsRead ==
    [][ (result'.op = "save" /\ result'.status = "ok" /\ ops' = ops + 1) =>
            \A n \in DOMAIN indexes :
                indexes[n].data = <<>> =>
                    /\ ReadOf(n).status = "ok"
                    /\ PayloadsOf(Session, fs)[n].data = ReadOf(n).data ]_vars

(***************************************************************************)
(* Properties of a failed load                                             *)
(***************************************************************************)

\* C26: a load that returns an error for a file whose version tag is
\* recognised leaves version, key, store and archive path as they were.
C26_FailedLoadKeepsSession ==
    [][ ( /\ result'.op = "load"
          /\ ops' = ops + 1
          /\ result'.status = "err"
          /\ fs[result'.path].exists
          /\ get_version(fs[result'.path]) # 0 )
        => /\ version' = version
           /\ key' = key
           /\ indexes' = indexes
           /\ archive_path' = archive_path ]_vars

(***************************************************************************)
(* Properties of entries whose extent leaves the file                      *)
(***************************************************************************)

\* C27: a load keeps the entries whose extent reaches past the end of the
\* file; a read of such an entry returns an error, and a read of an entry
\* of the same store whose extent is inside the file succeeds.
C27_PastEndEntry ==
    /\ ( /\ result.op = "load"
         /\ result.status = "ok"
         /\ IndexOf(result.path).val.t = "Dict" )
       => \A i \in DOMAIN IndexOf(result.path).val.items :
              GoodShape(IndexOf(result.path).val.items[i].v) =>
                  IndexOf(result.path).val.items[i].k \in DOMAIN indexes
    /\ ( /\ result.op = "read"
         /\ result.name \in DOMAIN indexes
         /\ indexes[result.name].data = <<>>
         /\ archive_path # <<>>
         /\ fs[archive_path[1]].exists )
       => IF Inside(indexes[result.name], FileBytes(fs[archive_path[1]]))
          THEN result.status = "ok"
          ELSE result.status = "err"

(***************************************************************************)
(* Properties of the cursor of the heuristic scan                          *)
(***************************************************************************)

\* the end of the run of filename characters that starts at the first
\* graphic byte of raw at or after pos (Len(raw) when there is none)
TokenEnd(raw, pos) ==
    LET Ends(s) == Min({e \in s..(Len(raw) - 1) : ~IsValidChar(raw[e + 1])} \cup {Len(raw)})
    IN  Ends(Min({s \in pos..(Len(raw) - 1) : IsAsciiGraphic(raw[s + 1])} \cup {Len(raw)}))

\* the iteration at cursor pos over the buffer of the recovered file
StepAt(pos) == ScanStep(key, IndexOf(result.path).raw, pos, EmptyMap)

\* a filename token is found at cursor pos
TokenAt(pos) == extract_filename_at_pos(IndexOf(result.path).raw, pos).some

\* C28 as stated: an iteration that accepts a filename token moves the
\* cursor to the token's end + 50, every other iteration (token rejected,
\* no filename at the cursor) moves it by exactly one byte.
C28_CursorByOne ==
    Recovered =>
        \A pos \in 0..(Len(IndexOf(result.path).raw) - 1) :
            IF StepAt(pos).indexes # EmptyMap
            THEN StepAt(pos).pos = TokenEnd(IndexOf(result.path).raw, pos) + 50
            ELSE StepAt(pos).pos = pos + 1

\* C28: an iteration that accepts a filename token moves the cursor to
\* the token's end + 50; one that finds a filename token and rejects it
\* (no acceptable marker pair) moves the cursor to the token's end; one
\* that finds no filename at the cursor moves it by exactly one byte.
C28_Cursor ==
    Recovered =>
        \A pos \in 0..(Len(IndexOf(result.path).raw) - 1) :
            IF StepAt(pos).indexes # EmptyMap
            THEN /\ TokenAt(pos)
                 /\ StepAt(pos).pos = TokenEnd(IndexOf(result.path).raw, pos) + 50
            ELSE IF TokenAt(pos)
            THEN StepAt(pos).pos = TokenEnd(IndexOf(result.path).raw, pos)
            ELSE StepAt(pos).pos = pos + 1

\* "bg.png" with its first marker 100 bytes after its end: the token is
\* rejected at cursor 0 and the cursor moves to 6; at cursor 6 there is
\* no filename and the cursor moves to 7
C28_Witness ==
    /\ Recovered
    /\ IndexOf(result.path).raw = MarkerBuf(Key1, 100, ToWord(52, 8), 5, ToWord(2, 8), <<46>>)
    /\ key = Key1
    /\ TokenAt(0)
    /\ StepAt(0) = [pos |-> 6, indexes |-> EmptyMap]
    /\ ~TokenAt(6)
    /\ StepAt(6).pos = 7

\* "bg.png" accepted at cursor 0: the cursor moves to 56
C28_WitnessAccepted ==
    /\ Recovered
    /\ IndexOf(result.path).raw = MarkerBuf(Key1, 1, ToWord(52, 8), 5, ToWord(2, 8), <<46>>)
    /\ key = Key1
    /\ StepAt(0) = [pos |-> 56, indexes |-> OneEntry(NameBg, 52, 2)]

\* the scan over the buffer of the recovered file after n iterations
RunsAt(n) ==
    ScanRuns(key, IndexOf(result.path).raw, n, [pos |-> 0, indexes |-> EmptyMap])

\* C29: in the scan of a recovered buffer every iteration, at whatever
\* cursor, leaves the cursor strictly further; after as many iterations
\* as the buffer has bytes the cursor is at or past the buffer's end, and
\* the store of the session is the store of that moment.
C29_ScanTerminates ==
    Recovered =>
        /\ \A pos \in 0..(Len(IndexOf(result.path).raw) - 1) : StepAt(pos).pos > pos
        /\ RunsAt(Len(IndexOf(result.path).raw)).pos >= Len(IndexOf(result.path).raw)
        /\ RunsAt(Len(IndexOf(result.path).raw)).indexes = indexes

\* a buffer of 126 bytes scanned to its end in fewer iterations than it
\* has bytes: "bg.png" rejected at cursor 0, then one byte at a time
C29_Witness ==
    /\ Recovered
    /\ key = Key1
    /\ IndexOf(result.path).raw = MarkerBuf(Key1, 100, ToWord(52, 8), 14, ToWord(2, 8), <<46>>)
    /\ Len(IndexOf(result.path).raw) = 126
    /\ RunsAt(120).pos = 125
    /\ RunsAt(121).pos = 126
    /\ indexes = EmptyMap

(***************************************************************************)
(* Properties of the session's modified flag                               *)
(***************************************************************************)

\* a session that is not modified holds no override, no modified entry
\* and no entry marked for deletion
C30_Clean ==
    ~modified =>
        \A n \in DOMAIN indexes :
            /\ indexes[n].data = <<>>
            /\ ~indexes[n].modified
            /\ ~indexes[n].to_delete

\* a successful add, replace, remove or restore leaves the flag set; the
\* flag is cleared by nothing but a successful load or an unload; a save
\* leaves it as it is
C30_Sets ==
    /\ ( /\ ops' = ops + 1
         /\ result'.op \in {"add", "replace", "remove", "restore"}
         /\ result'.status = "ok" )
       => modified'
    /\ (modified /\ ~modified') =>
           \/ result'.op = "load" /\ result'.status = "ok"
           \/ result'.op = "unload"
    /\ (ops' = ops + 1 /\ result'.op = "save") => modified' = modified

\* C30: in every reachable state, a session whose modified flag is false
\* holds no entry with an override, a modified flag or a pending
\* deletion: every successful add, replace, remove and restore sets the
\* flag, only a successful load or an unload clears it, save does not.
C30_ModifiedFlag == []C30_Clean /\ [][C30_Sets]_vars

\* after a successful save the session is still modified and still holds
\* an entry marked for deletion
C30_Witness ==
    /\ result.op = "save"
    /\ result.status = "ok"
    /\ modified
    /\ \E n \in DOMAIN indexes : indexes[n].to_delete

\* a load over a session with edits: not modified, no entry flagged
C30_WitnessReload ==
    /\ result.op = "load"
    /\ result.status = "ok"
    /\ ~modified
    /\ indexes # EmptyMap
    /\ backup_history # <<>>
=============================================================================
